---- MODULE Spec2Model ----
(***************************************************************************)
(* A model of the pull-request watcher of the den editor add-on            *)
(* (PullRequestMonitor), with the parts of the Git layer (GitManager) and  *)
(* of the host client (RepositoryHostAPI) that its poll tick calls.        *)
(*                                                                         *)
(* One action is one run-to-completion piece of the single event thread:   *)
(* a public method up to its return, or the continuation of an async       *)
(* method from one await to the next.                                      *)
(***************************************************************************)
EXTENDS Integers, Sequences, FiniteSets, TLC

\* ------------------------------------------------------------------ bounds

\* Pull-request ids are 1..MaxId.
MaxId == 2
\* Poll ticks (checkForNewPullRequests calls) that may be in flight together.
MaxInFlight == 2
\* Interval timers that may be active together.
MaxTimers == 2
\* getCurrentPullRequests calls that may be in flight together.
MaxQueries == 1
\* loadConfiguration calls that may be in flight together.
MaxLoads == 2
\* Moves of the clock.
MaxAdvances == 3
\* File events of one class counted between two downstream actions.
MaxBurst == 2
\* createDefaultConfig calls that may be in flight together.
MaxCreates == 1
\* initializeGit calls that may be in flight together.
MaxInits == 1
\* refreshRepositoryInfo calls that may be in flight together.
MaxRefreshes == 2
\* switchBranch calls that may wait for their checkout together.
MaxSwitches == 1
\* Changes made to the repository from outside.
MaxChanges == 2

\* ------------------------------------------------------- program constants

\* README, den.git.pollingInterval: "1m - 30m (default: 5m)".
MinPollingInterval == 60000
MaxPollingInterval == 1800000
DefaultPollingInterval == 300000
\* README, den.cacheTimeout: "5s - 5m (default: 30s)".
MinCacheTimeout == 5000
MaxCacheTimeout == 300000
\* setTimeout(..., 500) of the file watcher's handlers.
Debounce == 500

\* ------------------------------------------------------------- input sets

\* Values of the den.git.pollingInterval setting: below the documented
\* range, the default, above the documented range.
Intervals == {MinPollingInterval \div 2, DefaultPollingInterval, MaxPollingInterval * 2}

\* Values of the den.git.branches setting (the second is the default).
BranchLists == {<<"main">>, <<"develop", "test", "master", "main">>}

\* GitConfig (includeDraftPRs is read by no code and is left out).
Configs ==
    [enabled : BOOLEAN, branches : BranchLists,
     pollingInterval : Intervals, showNotifications : BOOLEAN]
DefaultIntervalConfigs == {c \in Configs : c.pollingInterval = DefaultPollingInterval}

\* GitRemote: parseRemote gives an empty owner and repository exactly to the
\* remotes of type "other", so the type stands for the three fields.
Origin == [name |-> "origin", type |-> "github"]
Upstream == [name |-> "upstream", type |-> "gitlab"]
Local == [name |-> "local", type |-> "other"]
Mirror == [name |-> "mirror", type |-> "bitbucket"]

\* The remote lists a refresh of the repository snapshot may find: those with
\* at most one remote the loops do not skip, and all of them.
OneHostRemoteLists == {<<>>, <<Local>>, <<Local, Origin>>}
RemoteLists == OneHostRemoteLists \cup {<<Local, Origin, Upstream>>}

\* The open requests a host may hold: the request 1 targets main and may
\* have its title edited, the others target develop.
Titles(i) == IF i = 1 THEN {"title", "edited"} ELSE {"title"}
BaseRef(i) == IF i = 1 THEN "main" ELSE "develop"
PullRequests(i) == {[id |-> i, title |-> t, branch |-> BaseRef(i)] : t \in Titles(i)}

\* The bodies a host may answer with: at most one request per id.
RECURSIVE HostListsFrom(_)
HostListsFrom(i) ==
    IF i > MaxId THEN {<<>>}
    ELSE LET rest == HostListsFrom(i + 1)
         IN  rest \cup {<<p>> \o s : p \in PullRequests(i), s \in rest}
HostLists == HostListsFrom(1)
\* The bodies that hold a request of every id, so requests to both branches.
FullHostLists == {b \in HostLists : Len(b) = MaxId}
\* The bodies that hold at most the request with the highest id.
LastIdHostLists == HostListsFrom(MaxId)

\* ---------------------------------------------------------------- helpers

None == <<>>
Some(x) == <<x>>

RemoteNames == {"origin", "upstream", "local", "mirror"}

\* Array.prototype.includes.
Includes(list, x) == \E j \in 1..Len(list) : list[j] = x

\* lastKnown.map(pr => pr.id), as the Set the code builds from it.
IdsOf(list) == {list[j].id : j \in 1..Len(list)}

RemoveAt(list, k) == SubSeq(list, 1, k - 1) \o SubSeq(list, k + 1, Len(list))

\* A loop that skips no remote.
SkipNoRemote(remote) == FALSE

\* The skip test of both remote loops.
SkipRemote(remote) == remote.type = "other"

\* The index of the first remote at or after i that the loop does not skip,
\* 0 when the loop ends.
RECURSIVE NextRemote(_, _)
NextRemote(remotes, i) ==
    IF i > Len(remotes) THEN 0
    ELSE IF SkipRemote(remotes[i]) THEN NextRemote(remotes, i + 1)
    ELSE i

\* ------------------------------------------------------- RepositoryHostAPI

\* Array.prototype.map.
Map(list, Op(_)) == [j \in 1..Len(list) |-> Op(list[j])]

\* response.data of a host of a type that holds the open requests `body`:
\* each host names the number and the target branch of a request its own way.
GitHubData(body) ==
    Map(body, LAMBDA pr : [number |-> pr.id, title |-> pr.title,
                           base |-> [ref |-> pr.branch]])
GitLabData(body) ==
    Map(body, LAMBDA pr : [iid |-> pr.id, title |-> pr.title,
                           target_branch |-> pr.branch])
BitbucketData(body) ==
    [values |-> Map(body, LAMBDA pr :
                      [id |-> pr.id, title |-> pr.title,
                       destination |-> [branch |-> [name |-> pr.branch]]])]

\* The decoders without the filter on the target branch.
GetGitHubPullRequestsUnfiltered(data, branches) ==
    Map(data, LAMBDA pr : [id |-> pr.number, title |-> pr.title,
                           branch |-> pr.base.ref])
GetGitLabPullRequestsUnfiltered(data, branches) ==
    Map(data, LAMBDA mr : [id |-> mr.iid, title |-> mr.title,
                           branch |-> mr.target_branch])
GetBitbucketPullRequestsUnfiltered(data, branches) ==
    Map(data.values, LAMBDA pr : [id |-> pr.id, title |-> pr.title,
                                  branch |-> pr.destination.branch.name])

\* getGitHubPullRequests, getGitLabPullRequests, getBitbucketPullRequests on
\* response.data: the filter on the target branch, then the mapping to
\* PullRequest (of which the model keeps id, title and branch).
GetGitHubPullRequests(data, branches) ==
    Map(SelectSeq(data, LAMBDA pr : Includes(branches, pr.base.ref)),
        LAMBDA pr : [id |-> pr.number, title |-> pr.title, branch |-> pr.base.ref])
GetGitLabPullRequests(data, branches) ==
    Map(SelectSeq(data, LAMBDA mr : Includes(branches, mr.target_branch)),
        LAMBDA mr : [id |-> mr.iid, title |-> mr.title, branch |-> mr.target_branch])
GetBitbucketPullRequests(data, branches) ==
    Map(SelectSeq(data.values,
                  LAMBDA pr : Includes(branches, pr.destination.branch.name)),
        LAMBDA pr : [id |-> pr.id, title |-> pr.title,
                     branch |-> pr.destination.branch.name])

\* getPullRequests(hostInfo, branches) on a host that holds the open requests
\* `body`, or whose call fails (ok = FALSE): the failure is caught and gives
\* [].
GetPullRequests(type, body, ok, branches) ==
    IF type = "other" THEN <<>>
    ELSE IF ~ok THEN <<>>
    ELSE IF type = "github" THEN GetGitHubPullRequests(GitHubData(body), branches)
    ELSE IF type = "gitlab" THEN GetGitLabPullRequests(GitLabData(body), branches)
    ELSE IF type = "bitbucket"
         THEN GetBitbucketPullRequests(BitbucketData(body), branches)
    ELSE <<>>

\* ------------------------------------------------------ PullRequestMonitor

\* findNewPullRequests comparing whole records where the code compares ids.
FindNewPullRequestsByRecord(lastKnown, current) ==
    IF Len(lastKnown) = 0 THEN current
    ELSE SelectSeq(current, LAMBDA pr : ~Includes(lastKnown, pr))

FindNewPullRequests(lastKnown, current) ==
    IF Len(lastKnown) = 0 THEN current
    ELSE SelectSeq(current, LAMBDA pr : pr.id \notin IdsOf(lastKnown))

\* The information message showNewPullRequestNotifications raises.
ShowNewPullRequestNotifications(newPRs) ==
    IF Len(newPRs) = 1
    THEN [kind |-> "single", prs |-> newPRs]
    ELSE [kind |-> "summary", prs |-> newPRs]

\* A read of the history that finds no list.
LastKnownNothing(map, name) == <<>>

\* this.lastKnownPRs.get(name) || []
LastKnown(map, name) == IF name \in DOMAIN map THEN map[name] ELSE <<>>

\* A set that merges the list into the list stored under the name.
MapSetMerging(map, name, list) ==
    [n \in DOMAIN map \cup {name} |->
        IF n = name
        THEN list \o SelectSeq(LastKnown(map, name), LAMBDA pr : pr.id \notin IdsOf(list))
        ELSE map[n]]

\* this.lastKnownPRs.set(name, list)
MapSet(map, name, list) ==
    [n \in DOMAIN map \cup {name} |-> IF n = name THEN list ELSE map[n]]

EmptyMap == [n \in {} |-> <<>>]

\* ------------------------------------------ configuration store, values

\* What a configuration file decodes to, and the fields of it, are
\* JavaScript values: a type tag and, where the code looks at it, the content.
Undefined == [t |-> "undefined"]
Null == [t |-> "null"]
Str(s) == [t |-> "string", s |-> s]
Num(n) == [t |-> "number", n |-> n]
Arr(items) == [t |-> "array", items |-> items]
Obj(fields) == [t |-> "object", fields |-> fields]
Bool(b) == [t |-> "boolean", b |-> b]
\* {}
NoFields == [f \in {} |-> Undefined]

\* !v
Falsy(v) ==
    \/ v.t \in {"undefined", "null"}
    \/ v.t = "string" /\ v.s = ""
    \/ v.t = "number" /\ v.n = 0
    \/ v.t = "boolean" /\ ~v.b

\* typeof v === 'object'
TypeofObject(v) == v.t \in {"null", "array", "object"}

\* typeof v === 'string'
TypeofString(v) == v.t = "string"

\* Array.isArray(v)
IsArray(v) == v.t = "array"

\* configObj.f: the property f of an object, undefined when it has none.
Prop(v, f) ==
    IF v.t = "object" /\ f \in DOMAIN v.fields THEN v.fields[f] ELSE Undefined

\* validateConfig(config) with tools taken as given unless it is falsy
\* (configObj.tools || []).
ValidateConfigLoose(decoded) ==
    IF Falsy(decoded) \/ ~TypeofObject(decoded)
    THEN None
    ELSE Some([name |-> IF TypeofString(Prop(decoded, "name"))
                        THEN Prop(decoded, "name") ELSE Str("Default Environment"),
               version |-> IF TypeofString(Prop(decoded, "version"))
                           THEN Prop(decoded, "version") ELSE Str("1.0.0"),
               environment |-> IF TypeofString(Prop(decoded, "environment"))
                               THEN Prop(decoded, "environment") ELSE Str("development"),
               tools |-> IF ~Falsy(Prop(decoded, "tools"))
                         THEN Prop(decoded, "tools") ELSE Arr(<<>>),
               settings |-> IF ~Falsy(Prop(decoded, "settings"))
                               /\ TypeofObject(Prop(decoded, "settings"))
                            THEN Prop(decoded, "settings") ELSE Obj(NoFields)])

\* validateConfig(config): None is null, Some(record) a DENConfig.
ValidateConfig(decoded) ==
    IF Falsy(decoded) \/ ~TypeofObject(decoded)
    THEN None
    ELSE Some([name |-> IF TypeofString(Prop(decoded, "name"))
                        THEN Prop(decoded, "name") ELSE Str("Default Environment"),
               version |-> IF TypeofString(Prop(decoded, "version"))
                           THEN Prop(decoded, "version") ELSE Str("1.0.0"),
               environment |-> IF TypeofString(Prop(decoded, "environment"))
                               THEN Prop(decoded, "environment") ELSE Str("development"),
               tools |-> IF IsArray(Prop(decoded, "tools"))
                         THEN Prop(decoded, "tools") ELSE Arr(<<>>),
               settings |-> IF ~Falsy(Prop(decoded, "settings"))
                               /\ TypeofObject(Prop(decoded, "settings"))
                            THEN Prop(decoded, "settings") ELSE Obj(NoFields)])

\* validateConfiguration(config), with the tools check that reports an empty
\* list as an error.
ValidateConfigurationStrict(record) ==
    LET errors ==
            (IF Falsy(record.name) \/ ~TypeofString(record.name)
             THEN <<"Missing or invalid \"name\" field">> ELSE <<>>)
         \o (IF Falsy(record.version) \/ ~TypeofString(record.version)
             THEN <<"Missing or invalid \"version\" field">> ELSE <<>>)
         \o (IF Falsy(record.environment) \/ ~TypeofString(record.environment)
             THEN <<"Missing or invalid \"environment\" field">> ELSE <<>>)
         \o (IF ~IsArray(record.tools) \/ record.tools.items = <<>>
             THEN <<"Invalid \"tools\" field - must be an array">> ELSE <<>>)
         \o (IF Falsy(record.settings) \/ ~TypeofObject(record.settings)
             THEN <<"Invalid \"settings\" field - must be an object">> ELSE <<>>)
    IN  [isValid |-> errors = <<>>, errors |-> errors, warnings |-> <<>>]

\* validateConfiguration(config)
ValidateConfiguration(record) ==
    LET errors ==
            (IF Falsy(record.name) \/ ~TypeofString(record.name)
             THEN <<"Missing or invalid \"name\" field">> ELSE <<>>)
         \o (IF Falsy(record.version) \/ ~TypeofString(record.version)
             THEN <<"Missing or invalid \"version\" field">> ELSE <<>>)
         \o (IF Falsy(record.environment) \/ ~TypeofString(record.environment)
             THEN <<"Missing or invalid \"environment\" field">> ELSE <<>>)
         \o (IF ~IsArray(record.tools)
             THEN <<"Invalid \"tools\" field - must be an array">> ELSE <<>>)
         \o (IF Falsy(record.settings) \/ ~TypeofObject(record.settings)
             THEN <<"Invalid \"settings\" field - must be an object">> ELSE <<>>)
        warnings ==
            IF IsArray(record.tools) /\ record.tools.items = <<>>
            THEN <<"No tools specified in configuration">> ELSE <<>>
    IN  [isValid |-> Len(errors) = 0, errors |-> errors, warnings |-> warnings]

\* ------------------------------------- configuration store, input values

\* Values a file may give a field of the configuration.
NameValues == {Undefined, Null, Str(""), Str("den"), Num(1)}
VersionValues == {Undefined, Str(""), Str("2.0.0"), Num(2)}
EnvironmentValues == {Undefined, Str(""), Str("production")}
ToolsValues ==
    {Undefined, Null, Str("git"), Arr(<<>>), Arr(<<"git">>), Obj(NoFields)}
SettingsValues ==
    {Undefined, Null, Num(0), Str("on"), Arr(<<>>), Obj(NoFields),
     Obj([k \in {"autoSave"} |-> Str("yes")])}

\* The object with the given values for its properties, a property given as
\* undefined being left out.
ObjectOf(given) == Obj([f \in {g \in DOMAIN given : given[g] # Undefined} |-> given[f]])

FieldChoices ==
    [name : NameValues, version : VersionValues, environment : EnvironmentValues,
     tools : ToolsValues, settings : SettingsValues]

\* What a parser may return.
DecodedValues ==
    {ObjectOf(given) : given \in FieldChoices}
    \cup {Undefined, Null, Str(""), Str("text"), Num(0), Num(7), Arr(<<>>), Arr(<<"git">>)}

\* ------------------------------------------- configuration store, files

\* this.configFileNames, in the order of the search.
ConfigFileNames ==
    <<"den.yml", "den.yaml", "den.json", ".den.yml", ".den.yaml", ".den.json">>

\* Names a den.configPath setting may give, the last of an unsupported format.
CustomFileNames == {"custom.json", "custom.toml"}

\* vscode.workspace.workspaceFolders, at most.
WorkspaceFolders == <<"a", "b">>

\* path.join(dir, name), kept as the pair.
Join(dir, name) == [dir |-> dir, name |-> name]

Paths ==
    {Join(WorkspaceFolders[f], ConfigFileNames[c]) :
        f \in 1..Len(WorkspaceFolders), c \in 1..Len(ConfigFileNames)}
    \cup {Join("etc", n) : n \in CustomFileNames}

\* path.extname(filePath).toLowerCase()
ExtName(path) ==
    CASE path.name \in {"den.yml", ".den.yml"} -> ".yml"
      [] path.name \in {"den.yaml", ".den.yaml"} -> ".yaml"
      [] path.name \in {"den.json", ".den.json", "custom.json"} -> ".json"
      [] path.name = "custom.toml" -> ".toml"
      [] OTHER -> ""

\* The text of a file: the syntax it is written in ("json" text is also YAML,
\* "bad" text is neither) and the value it denotes.
Text(syntax, value) == [syntax |-> syntax, value |-> value]

\* JSON.parse(content), yaml.load(content): None when the parser throws.
JsonParse(content) == IF content.syntax = "json" THEN Some(content.value) ELSE None
YamlLoad(content) ==
    IF content.syntax \in {"json", "yaml"} THEN Some(content.value) ELSE None

\* loadConfigFromPath(filePath) on the disk `disk` (path -> None when the
\* file is missing, Some(text) otherwise): None is null.
LoadConfigFromPath(disk, path) ==
    IF disk[path] = None
    THEN None
    ELSE LET content == disk[path][1]
             ext == ExtName(path)
             decoded == IF ext = ".json" THEN JsonParse(content)
                        ELSE IF ext \in {".yml", ".yaml"} THEN YamlLoad(content)
                        ELSE None
         IN  IF decoded = None THEN None ELSE ValidateConfig(decoded[1])

\* defaultConfig of createDefaultConfig.
DefaultConfig ==
    [name |-> Str("Developer Environment"), version |-> Str("1.0.0"),
     environment |-> Str("development"), tools |-> Arr(<<"git", "npm", "docker">>),
     settings |-> Obj([k \in {"autoSave", "formatOnSave", "lintOnSave"} |->
                          Bool(TRUE)])]

\* yaml.dump(config): YAML text of the object with the record's fields.
YamlDump(record) == Text("yaml", Obj(record))

\* private readonly cacheTimeout = 30000
CacheTimeout == 30000

\* The place of the last candidate of `dir`, from place c on, whose file
\* exists; 0 when there is none.
RECURSIVE LastExisting(_, _, _)
LastExisting(disk, dir, c) ==
    IF c > Len(ConfigFileNames) THEN 0
    ELSE IF LastExisting(disk, dir, c + 1) # 0 THEN LastExisting(disk, dir, c + 1)
    ELSE IF disk[Join(dir, ConfigFileNames[c])] # None THEN c
    ELSE 0

\* The place of the first candidate of `dir`, from place c on, whose file
\* exists (fs.existsSync); 0 when there is none.
RECURSIVE FirstExisting(_, _, _)
FirstExisting(disk, dir, c) ==
    IF c > Len(ConfigFileNames) THEN 0
    ELSE IF disk[Join(dir, ConfigFileNames[c])] # None THEN c
    ELSE FirstExisting(disk, dir, c + 1)

VARIABLES
    config,          \* PullRequestMonitor.config
    pollingInterval, \* PullRequestMonitor.pollingInterval: 0 is null, else the
                     \* place in `timers` of the timer it refers to
    timers,          \* the periods of the active interval timers, oldest first
    lastKnownPRs,    \* PullRequestMonitor.lastKnownPRs: remote name -> list
    git,             \* GitManager.git is not null
    repositoryInfo,  \* GitManager.repositoryInfo: None is null, else Some(snapshot)
    ticks,           \* the checkForNewPullRequests calls in flight
    queries,         \* the getCurrentPullRequests calls in flight
    notified,        \* the notifications the last step raised
    solo,            \* no two ticks have been in flight together since the
                     \* last moment no tick was in flight
    lastResp,        \* remote name -> the list the last finished tick got for
                     \* it, when that tick overlapped no other tick
    known,           \* remote name -> the ids that were in the history at the
                     \* last updateConfig and in every host answer since
    announced        \* remote name -> the ids of the items that were announced
                     \* and that every list the host client returned since has
                     \* held

mvars ==
    <<config, pollingInterval, timers, lastKnownPRs, git, repositoryInfo,
      ticks, queries, notified, solo, lastResp, known, announced>>

\* ------------------------------------------- configuration store, state

VARIABLES
    files,           \* the disk: path -> None (no such file) or Some(text)
    settings,        \* the den.* settings and the workspace folders
    configCache,     \* ConfigManager.configCache: folder -> entry
    now,             \* Date.now(), in ms
    loads,           \* the loadConfiguration calls in flight
    returned,        \* the calls that returned in the last step
    oldKeys,         \* the folders whose cache entry holds a record read from
                     \* the disk before the last clearCache()
    creates,         \* the createDefaultConfig calls in flight
    notices,         \* the messages the last step showed
    inits,           \* the initializeGit calls that wait for isGitRepository()
    timeouts,        \* folder -> event class -> the debounce handle: None is
                     \* null, Some(t) the timer due at t
    pending,         \* the debounce timers that are set and have not run
    burst,           \* folder -> event class -> the events since the last
                     \* downstream action of the class
    ran,             \* the downstream actions the last step ran
    status,          \* StatusBarManager.currentStatus and currentText
    statusBarItem,   \* the text and the background colour of the status item
    setLog,          \* the last two setStatus calls, and whether each wrote
                     \* to the status item
    arg,             \* the argument of the function under study
    out              \* its result, once applied

\* ------------------------------------------------------- GitManager, state

VARIABLES
    worktree,        \* the repository on the disk: the branch checked out, the
                     \* remotes and the number of modified files
    refreshes,       \* the refreshRepositoryInfo calls in flight
    switches,        \* the switchBranch calls that wait for their checkout
    switched,        \* the switchBranch calls that returned in the last step
    gitStatusBarItem,\* StatusBarManager.gitStatusBarItem.text, None before the
                     \* first setGitStatus
    lastRefresh,     \* of the last refresh that stored its snapshot: the
                     \* queries that failed and what the others were answered
    changes          \* the changes made to the repository from outside

gitVars ==
    <<worktree, refreshes, switches, switched, gitStatusBarItem, lastRefresh, changes>>
createVars == <<creates, notices>>
storeVars ==
    <<files, settings, configCache, now, loads, returned, oldKeys, createVars, inits>>
statusVars == <<status, statusBarItem, setLog>>
watchVars == <<timeouts, pending, burst, ran, statusVars>>
pureVars == <<arg, out>>
cvars == <<storeVars, watchVars, pureVars, gitVars>>

NoCache == [dir \in {} |-> None]

\* The classes of file events, one debounce handle each per folder.
EventClasses == {"create", "change", "delete"}

NoTimeouts ==
    [dir \in {WorkspaceFolders[f] : f \in 1..Len(WorkspaceFolders)} |->
        [e \in EventClasses |-> None]]
NoBurst ==
    [dir \in {WorkspaceFolders[f] : f \in 1..Len(WorkspaceFolders)} |->
        [e \in EventClasses |-> 0]]

\* The settings as the add-on ships them, in a workspace of both folders.
DefaultSettings ==
    [configPath |-> None, autoSearch |-> TRUE, folders |-> WorkspaceFolders,
     cacheTimeout |-> CacheTimeout]

\* No file on the disk.
EmptyDisk == [p \in Paths |-> None]

\* The store after construction: nothing cached, no call in flight.
StoreIdle ==
    /\ configCache = NoCache
    /\ now = 0
    /\ loads = <<>>
    /\ returned = <<>>
    /\ oldKeys = {}
    /\ creates = <<>>
    /\ notices = <<>>
    /\ inits = 0

\* ----------------------------------------------------- GitManager, parts

BranchNames == {"main", "dev"}

\* The commit at the tip of a branch, as git.log({maxCount: 1}) reports it;
\* the branches stand at the same commit.
TipOf(branch) == [hash |-> "a1", message |-> "work", author |-> "dev", date |-> 0]

\* The commits a branch is ahead of its upstream.
AheadOf(branch) == IF branch = "main" THEN 0 ELSE 1

Tree(branch, remotes, modified) ==
    [currentBranch |-> branch, remotes |-> remotes, modified |-> modified]

\* The repository at activation.
StartTree == Tree("main", <<Origin>>, 0)

Fields == {"currentBranch", "remotes", "lastCommit", "status"}

ZeroCommit(time) == [hash |-> "", message |-> "", author |-> "", date |-> time]

CleanStatus ==
    [isClean |-> TRUE, stagedFiles |-> 0, modifiedFiles |-> 0, untrackedFiles |-> 0,
     ahead |-> 0, behind |-> 0]

\* A promise fulfilled with a value, and a rejected one.
Fulfilled(value) == [rejected |-> FALSE, value |-> value]
Rejected == [rejected |-> TRUE, value |-> "error"]

\* getCurrentBranch() on the repository `tree`; ok is whether git.branch()
\* succeeds.
GetCurrentBranch(tree, ok) == Fulfilled(IF ok THEN tree.currentBranch ELSE "")

\* getRemotes()
GetRemotes(tree, ok) == Fulfilled(IF ok THEN tree.remotes ELSE <<>>)

\* getLastCommit() at the time `time`
GetLastCommit(tree, ok, time) ==
    Fulfilled(IF ok THEN TipOf(tree.currentBranch) ELSE ZeroCommit(time))

\* A getStatus() that lets the failure of git.status() through.
GetStatusRethrowing(tree, ok) ==
    IF ok
    THEN Fulfilled([isClean |-> tree.modified = 0, stagedFiles |-> 0,
                    modifiedFiles |-> tree.modified, untrackedFiles |-> 0,
                    ahead |-> AheadOf(tree.currentBranch), behind |-> 0])
    ELSE Rejected

\* getStatus()
GetStatus(tree, ok) ==
    IF ok
    THEN Fulfilled([isClean |-> tree.modified = 0, stagedFiles |-> 0,
                    modifiedFiles |-> tree.modified, untrackedFiles |-> 0,
                    ahead |-> AheadOf(tree.currentBranch), behind |-> 0])
    ELSE Fulfilled(CleanStatus)

\* The promise of the query of one field of the snapshot.
Query(field, tree, ok, time) ==
    IF field = "currentBranch" THEN GetCurrentBranch(tree, ok)
    ELSE IF field = "remotes" THEN GetRemotes(tree, ok)
    ELSE IF field = "lastCommit" THEN GetLastCommit(tree, ok, time)
    ELSE GetStatus(tree, ok)

\* The snapshot refreshRepositoryInfo() stores from the four answers.
RepositoryInfoOf(answers) ==
    [currentBranch |-> answers["currentBranch"][1], remotes |-> answers["remotes"][1],
     lastCommit |-> answers["lastCommit"][1], status |-> answers["status"][1],
     isGitRepository |-> TRUE]

\* The snapshot of a refresh no query of which fails, on the repository
\* `tree`.
Snapshot(tree) ==
    RepositoryInfoOf([f \in Fields |-> Some(Query(f, tree, TRUE, 0).value)])

\* A refreshRepositoryInfo() call at its await of the four queries; `caller`
\* is what waits for it and `name` the branch of the switchBranch that does.
\* `failed` is the queries that have failed and `seen` what the repository
\* held when each query was answered.
NewRefresh(caller, name) ==
    [answers |-> [f \in Fields |-> None], caller |-> caller, name |-> name,
     failed |-> {}, seen |-> [f \in Fields |-> None]]

NoRefresh == [failed |-> {}, seen |-> [f \in Fields |-> None]]

\* setGitStatus(branch, isClean, ahead, behind): the text of the item, " up "
\* and " down " standing for its two arrows.
GitStatusText(branch, isClean, ahead, behind) ==
    <<IF isClean THEN "$(git-branch)" ELSE "$(git-branch) $(warning)", " ", branch>>
    \o (IF ahead > 0 \/ behind > 0 THEN <<" up ", ahead, " down ", behind>> ELSE <<>>)

\* The text updateGitStatus() sets for the snapshot `info`.
GitStatusOf(info) ==
    Some(GitStatusText(info.currentBranch, info.status.isClean, info.status.ahead,
                       info.status.behind))

\* The snapshot of a refresh that has found the remotes `remotes`.
Found(remotes) == Some([Snapshot(worktree) EXCEPT !.remotes = remotes])

\* The GitManager on the repository `tree`, its refreshes in flight being
\* `calls`.
GitOn(tree, calls) ==
    /\ worktree = tree
    /\ refreshes = calls
    /\ switches = <<>>
    /\ switched = <<>>
    /\ gitStatusBarItem = None
    /\ lastRefresh = NoRefresh
    /\ changes = 0

\* The GitManager with nothing in flight.
GitIdleOn(tree) == GitOn(tree, <<>>)

GitIdle == GitIdleOn(StartTree)

\* The GitManager once constructed in a repository: the refresh of
\* initializeGit() is in flight.
GitStart == GitOn(StartTree, <<NewRefresh("constructor", "")>>)

\* A repository with no remote.
LocalTree == Tree("main", <<>>, 0)

\* -------------------------------------------------------- StatusBarManager

StatusTypes == {"loading", "warning", "error", "success"}

StatusIcons ==
    [loading |-> "$(sync~spin)", warning |-> "$(warning)", error |-> "$(error)",
     success |-> "$(check)"]

\* The background setStatus gives the item for a status.
BackgroundColor(s) ==
    IF s = "error" THEN "statusBarItem.errorBackground"
    ELSE IF s = "warning" THEN "statusBarItem.warningBackground"
    ELSE "statusBarItem.prominentBackground"

\* currentStatus = null and currentText = null, and the item as created.
NoStatus == [state |-> "null", label |-> "null"]
NoItem == [text |-> <<>>, backgroundColor |-> "undefined"]

\* `${icon} DEN: ${text}`
ItemText(s, t) == <<StatusIcons[s], " DEN: ", t>>

\* The log after one more call.
Logged(log, entry) == IF Len(log) < 2 THEN Append(log, entry) ELSE <<log[2], entry>>

\* A status bar: the fields of the manager, its item and the log of calls.
Bar(current, item, log) == [status |-> current, item |-> item, log |-> log]

\* setStatus returning early when the status alone is the current one.
SetStatusByState(bar, s, t) ==
    IF bar.status.state = s
    THEN Bar(bar.status, bar.item,
             Logged(bar.log, [state |-> s, label |-> t, wrote |-> FALSE]))
    ELSE Bar([state |-> s, label |-> t],
             [text |-> ItemText(s, t), backgroundColor |-> BackgroundColor(s)],
             Logged(bar.log, [state |-> s, label |-> t, wrote |-> TRUE]))

\* setStatus(status, text).
SetStatus(bar, s, t) ==
    IF bar.status.state = s /\ bar.status.label = t
    THEN Bar(bar.status, bar.item,
             Logged(bar.log, [state |-> s, label |-> t, wrote |-> FALSE]))
    ELSE Bar([state |-> s, label |-> t],
             [text |-> ItemText(s, t), backgroundColor |-> BackgroundColor(s)],
             Logged(bar.log, [state |-> s, label |-> t, wrote |-> TRUE]))

\* The setStatus calls of one step, in their order.
RECURSIVE SetStatusAll(_, _)
SetStatusAll(bar, calls) ==
    IF calls = <<>> THEN bar
    ELSE SetStatusAll(SetStatus(bar, calls[1].state, calls[1].label), Tail(calls))

Show(calls) ==
    LET bar == SetStatusAll(Bar(status, statusBarItem, setLog), calls)
    IN  /\ status' = bar.status
        /\ statusBarItem' = bar.item
        /\ setLog' = bar.log

\* The status bar as the constructor leaves it.
StatusIdle ==
    /\ status = NoStatus
    /\ statusBarItem = NoItem
    /\ setLog = <<>>

\* The status bar after setStatus('loading', 'Initializing...') of
\* initializeExtension.
StatusStart ==
    LET bar == SetStatus(Bar(NoStatus, NoItem, <<>>), "loading", "Initializing...")
    IN  /\ status = bar.status
        /\ statusBarItem = bar.item
        /\ setLog = bar.log

\* The file watchers after setupConfigurationWatcher: no timer set.
TimersIdle ==
    /\ timeouts = NoTimeouts
    /\ pending = {}
    /\ burst = NoBurst
    /\ ran = <<>>

WatchIdle ==
    /\ TimersIdle
    /\ StatusStart

PureIdle ==
    /\ arg = Undefined
    /\ out = <<>>

\* The store, idle on an empty disk, that the watcher's specifications run
\* beside.
StoreStart ==
    /\ files = EmptyDisk
    /\ settings = DefaultSettings
    /\ StoreIdle
    /\ WatchIdle
    /\ GitIdle
    /\ PureIdle

\* A loadConfiguration() call at its start.
NewLoad(caller) ==
    [pc |-> "custom", f |-> 0, c |-> 0, pending |-> None, reads |-> {},
     hit |-> FALSE, old |-> FALSE, fromOld |-> FALSE, early |-> FALSE,
     readAt |-> None, caller |-> caller]

\* cached && Date.now() - cached.timestamp < this.cacheTimeout
CacheHit(cache, dir, time) ==
    dir \in DOMAIN cache /\ time - cache[dir].timestamp < CacheTimeout

\* The loop of findConfigInWorkspace over the candidate names of folder f,
\* from place `from` to its next await or its end.
ScanCandidates(call, f, from) ==
    LET dir == settings.folders[f]
        k == FirstExisting(files, dir, from)
    IN  IF k = 0
        THEN [call EXCEPT !.pc = "found", !.f = f, !.pending = None]
        ELSE [call EXCEPT !.pc = "candidate", !.f = f, !.c = k,
                          !.pending = LoadConfigFromPath(files, Join(dir, ConfigFileNames[k])),
                          !.reads = @ \cup {Join(dir, ConfigFileNames[k])},
                          !.old = FALSE, !.readAt = Some(now)]

\* findConfigInWorkspace(folder f) with the cache left out: every call searches
\* the disk.
FindConfigInWorkspaceUncached(cache, call, f) == ScanCandidates(call, f, 1)

\* findConfigInWorkspace(folder f) from its start to its first await or its
\* return, the cache being `cache`.
FindConfigInWorkspace(cache, call, f) ==
    LET dir == settings.folders[f]
    IN  IF CacheHit(cache, dir, now)
        THEN [call EXCEPT !.pc = "found", !.f = f,
                          !.pending = Some(cache[dir].config),
                          !.hit = TRUE, !.fromOld = dir \in oldKeys]
        ELSE ScanCandidates(call, f, 1)

\* loadConfiguration() from the auto-search test, entering folder f.
AutoSearch(cache, call, f) ==
    IF settings.autoSearch /\ f <= Len(settings.folders)
    THEN FindConfigInWorkspace(cache, call, f)
    ELSE [call EXCEPT !.pc = "done", !.pending = None]

\* loadConfiguration() with the auto-search before the override path.
BeginLoadSearchFirst(cache, caller) ==
    AutoSearch(cache, [NewLoad(caller) EXCEPT !.pc = "found"], 1)

\* loadConfiguration() from its start to its first await or its return.
BeginLoad(cache, caller) ==
    IF settings.configPath # None
    THEN [NewLoad(caller) EXCEPT
            !.pending = LoadConfigFromPath(files, settings.configPath[1]),
            !.reads = {settings.configPath[1]}, !.readAt = Some(now)]
    ELSE AutoSearch(cache, NewLoad(caller), 1)

\* The continuation of a call that gives up the folder at the first candidate
\* that fails to load.
ResumeLoadGivingUp(call) ==
    CASE call.pc = "custom" ->
            IF call.pending # None THEN [call EXCEPT !.pc = "done"]
            ELSE AutoSearch(configCache, call, 1)
      [] call.pc = "candidate" -> [call EXCEPT !.pc = "found"]
      [] call.pc = "found" ->
            IF call.pending # None THEN [call EXCEPT !.pc = "done"]
            ELSE AutoSearch(configCache, call, call.f + 1)

\* The continuation of a call from the await it stands at to the next one.
ResumeLoad(call) ==
    CASE call.pc = "custom" ->
            IF call.pending # None THEN [call EXCEPT !.pc = "done"]
            ELSE AutoSearch(configCache, call, 1)
      [] call.pc = "candidate" ->
            IF call.pending # None THEN [call EXCEPT !.pc = "found"]
            ELSE ScanCandidates(call, call.f, call.c + 1)
      [] call.pc = "found" ->
            IF call.pending # None THEN [call EXCEPT !.pc = "done"]
            ELSE AutoSearch(configCache, call, call.f + 1)

\* A store that also renews the entry of a folder when a call is served
\* from it.
CacheAfterRenewing(call) ==
    LET dir == settings.folders[call.f]
    IN  IF call.pc = "candidate" /\ call.pending # None
        THEN [d \in DOMAIN configCache \cup {dir} |->
                 IF d = dir THEN [config |-> call.pending[1], timestamp |-> now]
                 ELSE configCache[d]]
        ELSE IF call.pc = "found" /\ call.hit
        THEN [configCache EXCEPT ![dir].timestamp = now]
        ELSE configCache

\* this.configCache.set(cacheKey, { config, timestamp: Date.now() }), done by
\* the continuation of a call that stands at a candidate that loaded.
CacheAfter(call) ==
    IF call.pc = "candidate" /\ call.pending # None
    THEN LET dir == settings.folders[call.f]
         IN  [d \in DOMAIN configCache \cup {dir} |->
                 IF d = dir THEN [config |-> call.pending[1], timestamp |-> now]
                 ELSE configCache[d]]
    ELSE configCache

\* The status validateAndUpdateStatus() shows for the record it loaded.
StatusAfterValidation(result) ==
    IF result = None
    THEN [state |-> "warning", label |-> "No config found"]
    ELSE IF ValidateConfiguration(result[1]).isValid
    THEN [state |-> "success", label |-> "Config Valid"]
    ELSE [state |-> "warning", label |-> "Config Invalid"]

\* The status the validate command shows for the record it loaded.
StatusAfterValidate(result) ==
    IF result = None
    THEN [state |-> "warning", label |-> "No Config"]
    ELSE IF ValidateConfiguration(result[1]).isValid
    THEN [state |-> "success", label |-> "Config Valid"]
    ELSE [state |-> "warning", label |-> "Config Invalid"]

\* The status the reload command shows for the record it loaded.
StatusAfterReload(result) ==
    IF result = None
    THEN [state |-> "warning", label |-> "Reload Failed"]
    ELSE [state |-> "success", label |-> "Reloaded"]

\* The status initializeExtension() shows for the record it loaded.
StatusAfterInitialize(result) ==
    IF result = None
    THEN [state |-> "warning", label |-> "No config found"]
    ELSE [state |-> "success", label |-> "Ready"]

\* The setStatus calls of a caller that shows a status only for a record.
StatusOnReturnOfRecord(call) ==
    CASE call.pending = None -> <<>>
      [] call.pending # None /\ call.caller = "revalidate" ->
            <<StatusAfterValidation(call.pending)>>
      [] call.pending # None /\ call.caller = "validate" ->
            <<StatusAfterValidate(call.pending)>>
      [] call.pending # None /\ call.caller = "reload" ->
            <<StatusAfterReload(call.pending)>>
      [] call.pending # None /\ call.caller = "initialize" ->
            <<StatusAfterInitialize(call.pending)>>
      [] OTHER -> <<>>

\* The setStatus calls of the caller of a load on the load's return: the
\* revalidation, the validate and reload commands and the initialization
\* show a status, the other commands none.
StatusOnReturn(call) ==
    CASE call.caller = "revalidate" -> <<StatusAfterValidation(call.pending)>>
      [] call.caller = "validate" -> <<StatusAfterValidate(call.pending)>>
      [] call.caller = "reload" -> <<StatusAfterReload(call.pending)>>
      [] call.caller = "initialize" -> <<StatusAfterInitialize(call.pending)>>
      [] OTHER -> <<>>

\* The caller of a returned load goes on to initializeGit(): the
\* initialization always, the revalidation for a valid record.
GoesOnToGit(call) ==
    \/ call.caller = "initialize"
    \/ /\ call.caller = "revalidate"
       /\ StatusAfterValidation(call.pending).state = "success"

\* A call of `calls` that has stepped to `call`: kept in flight at place l,
\* or returned to its caller when it is done; `said` is the setStatus calls
\* of the step before the call's. The caller sets the status on the return
\* and may go on to initializeGit(), which awaits nothing the model follows
\* when there is no repository.
Settle(calls, l, call, said) ==
    /\ loads' = IF call.pc = "done"
                THEN SubSeq(calls, 1, l - 1) \o SubSeq(calls, l + 1, Len(calls))
                ELSE SubSeq(calls, 1, l - 1) \o <<call>> \o SubSeq(calls, l + 1, Len(calls))
    /\ returned' = IF call.pc = "done" THEN <<call>> ELSE <<>>
    /\ Show(IF call.pc = "done" THEN said \o StatusOnReturn(call) ELSE said)
    /\ IF call.pc = "done" /\ git /\ GoesOnToGit(call)
       THEN inits < MaxInits /\ inits' = inits + 1
       ELSE UNCHANGED inits

vars == <<mvars, cvars>>

NoResp == [n \in RemoteNames |-> None]
NoKnown == [n \in RemoteNames |-> {}]

Init ==
    /\ config \in DefaultIntervalConfigs
    /\ pollingInterval = 0
    /\ timers = <<>>
    /\ lastKnownPRs = EmptyMap
    /\ git \in BOOLEAN
    /\ repositoryInfo = None
    /\ ticks = <<>>
    /\ queries = <<>>
    /\ notified = <<>>
    /\ solo = TRUE
    /\ lastResp = NoResp
    /\ known = NoKnown
    /\ announced = NoKnown
    /\ StoreStart

\* ------------------------------------------- checkForNewPullRequests, parts

\* The remotes loop leaving a call whose host query has failed, where the
\* code goes on to the next remote.
EnterRemoteLoopUnlessFailed(call, remotes, from, branches) ==
    LET j == NextRemote(remotes, from)
    IN  IF j = 0 \/ call.failed # {} THEN <<>>
        ELSE <<[call EXCEPT !.pc = "host", !.remotes = remotes, !.i = j,
                            !.branches = branches]>>

\* The remotes loop from its top: the call ends when no remote is left,
\* else it awaits the host's answer for the first remote not skipped, asked
\* with the branch list configured at that moment.
EnterRemoteLoop(call, remotes, from, branches) ==
    LET j == NextRemote(remotes, from)
    IN  IF j = 0 THEN <<>>
        ELSE <<[call EXCEPT !.pc = "host", !.remotes = remotes, !.i = j,
                            !.branches = branches]>>

\* What a call has in hand once getRepositoryInfo() has answered `info`
\* (None is null): nothing when there is no repository or no remote.
AfterRepositoryInfo(call, info, branches) ==
    IF info = None THEN <<>>
    ELSE IF Len(info[1].remotes) = 0 THEN <<>>
    ELSE EnterRemoteLoop(call, info[1].remotes, 1, branches)

\* A call of checkForNewPullRequests() or getCurrentPullRequests() up to its
\* first await that waits for something outside: getRepositoryInfo() answers
\* from the stored snapshot, answers null without a repository, and else
\* starts a refresh.
BeginCall(call, branches) ==
    IF repositoryInfo # None THEN AfterRepositoryInfo(call, repositoryInfo, branches)
    ELSE IF ~git THEN <<>>
    ELSE <<call>>

\* A call at its start; `failed` is the names of the remotes whose host
\* query has failed in the call.
NewTick ==
    [pc |-> "repo", remotes |-> <<>>, i |-> 0, branches |-> <<>>, emitted |-> 0,
     failed |-> {}]

NewQuery ==
    [pc |-> "repo", remotes |-> <<>>, i |-> 0, branches |-> <<>>, allPRs |-> <<>>,
     failed |-> {}]

\* The names of the remotes a tick over `remotes` asks the host about.
AskedNames(remotes) ==
    {remotes[j].name : j \in {x \in 1..Len(remotes) : ~SkipRemote(remotes[x])}}

\* A call of checkForNewPullRequests() with this.config = cfg.
CheckForNewPullRequests(cfg) ==
    LET begun == BeginCall(NewTick, cfg.branches)
    IN  /\ ticks' = ticks \o begun
        /\ solo' = (Len(ticks) = 0)
        /\ lastResp' = IF Len(ticks) = 0 /\ begun # <<>> THEN lastResp ELSE NoResp

\* startMonitoring() with this.config = cfg.
StartMonitoringWith(cfg) ==
    IF ~cfg.enabled
    THEN UNCHANGED <<pollingInterval, timers, ticks, solo, lastResp>>
    ELSE /\ Len(ticks) < MaxInFlight
         /\ Len(timers) < MaxTimers
         /\ CheckForNewPullRequests(cfg)
         /\ timers' = Append(timers, cfg.pollingInterval)
         /\ pollingInterval' = Len(timers) + 1

\* The body of stopMonitoring().
ClearPollingInterval ==
    IF pollingInterval # 0
    THEN /\ timers' = RemoveAt(timers, pollingInterval)
         /\ pollingInterval' = 0
    ELSE UNCHANGED <<pollingInterval, timers>>

\* ---------------------------------------------------------------- actions

StartMonitoring ==
    /\ StartMonitoringWith(config)
    /\ notified' = <<>>
    /\ UNCHANGED <<config, lastKnownPRs, git, repositoryInfo, queries, known, announced>>
    /\ UNCHANGED cvars

StopMonitoring ==
    /\ ClearPollingInterval
    /\ notified' = <<>>
    /\ UNCHANGED <<config, lastKnownPRs, git, repositoryInfo, ticks, queries,
                   solo, lastResp, known, announced>>
    /\ UNCHANGED cvars

UpdateConfig(newConfig) ==
    /\ config' = newConfig
    /\ IF newConfig.enabled
       THEN StartMonitoringWith(newConfig)
       ELSE ClearPollingInterval /\ UNCHANGED <<ticks, solo, lastResp>>
    /\ known' = [n \in RemoteNames |-> IdsOf(LastKnown(lastKnownPRs, n))]
    /\ notified' = <<>>
    /\ UNCHANGED <<lastKnownPRs, git, repositoryInfo, queries, announced>>
    /\ UNCHANGED cvars

Dispose ==
    /\ ClearPollingInterval
    /\ lastKnownPRs' = EmptyMap
    /\ known' = NoKnown
    /\ announced' = NoKnown
    /\ notified' = <<>>
    /\ UNCHANGED <<config, git, repositoryInfo, ticks, queries, solo, lastResp>>
    /\ UNCHANGED cvars

\* The callback of the active timer at place j of `timers`.
TimerFire(j) ==
    /\ j \in 1..Len(timers)
    /\ Len(ticks) < MaxInFlight
    /\ CheckForNewPullRequests(config)
    /\ notified' = <<>>
    /\ UNCHANGED <<config, pollingInterval, timers, lastKnownPRs, git,
                   repositoryInfo, queries, known, announced>>
    /\ UNCHANGED cvars

\* The refresh a tick waits for ends, having found the remotes `remotes`.
TickRepositoryInfo(k, remotes) ==
    /\ k \in 1..Len(ticks)
    /\ ticks[k].pc = "repo"
    /\ repositoryInfo' = Found(remotes)
    /\ LET go == AfterRepositoryInfo(ticks[k], Found(remotes), config.branches)
       IN  /\ ticks' = SubSeq(ticks, 1, k - 1) \o go \o SubSeq(ticks, k + 1, Len(ticks))
           /\ solo' = (solo \/ Len(ticks') = 0)
           /\ lastResp' = IF go = <<>> \/ ~solo THEN NoResp ELSE lastResp
    /\ notified' = <<>>
    /\ UNCHANGED <<config, pollingInterval, timers, lastKnownPRs, git, queries, known, announced>>
    /\ UNCHANGED cvars

\* The host's answer for the remote a tick waits on arrives: the diff, the
\* notification, the history update, and on to the next remote.
TickPullRequests(k, body, ok) ==
    /\ k \in 1..Len(ticks)
    /\ ticks[k].pc = "host"
    /\ LET t == ticks[k]
           remote == t.remotes[t.i]
           currentPRs == GetPullRequests(remote.type, body, ok, t.branches)
           newPRs == FindNewPullRequests(LastKnown(lastKnownPRs, remote.name), currentPRs)
           shown == IF Len(newPRs) > 0 /\ config.showNotifications
                    THEN <<ShowNewPullRequestNotifications(newPRs)>>
                    ELSE <<>>
           counted == [t EXCEPT !.emitted = @ + Len(shown),
                                !.failed = IF ok THEN @ ELSE @ \cup {remote.name}]
           go == EnterRemoteLoop(counted, t.remotes, t.i + 1, config.branches)
           got == [lastResp EXCEPT ![remote.name] = Some(currentPRs)]
       IN  /\ notified' = shown
           /\ lastKnownPRs' = MapSet(lastKnownPRs, remote.name, currentPRs)
           /\ ticks' = SubSeq(ticks, 1, k - 1) \o go \o SubSeq(ticks, k + 1, Len(ticks))
           /\ solo' = (solo \/ Len(ticks') = 0)
           /\ lastResp' =
                IF ~solo THEN NoResp
                ELSE IF go # <<>> THEN got
                ELSE [n \in RemoteNames |->
                        IF n \in AskedNames(t.remotes) THEN got[n] ELSE None]
           /\ known' = [known EXCEPT ![remote.name] = @ \cap IdsOf(body)]
           /\ announced' = [announced EXCEPT ![remote.name] =
                              (@ \cup IF shown = <<>> THEN {} ELSE IdsOf(newPRs))
                              \cap IdsOf(currentPRs)]
    /\ UNCHANGED <<config, pollingInterval, timers, git, repositoryInfo, queries>>
    /\ UNCHANGED cvars

\* A call of getCurrentPullRequests() (the den.git.showPRs command).
GetCurrentPullRequests ==
    /\ Len(queries) < MaxQueries
    /\ queries' = queries \o BeginCall(NewQuery, config.branches)
    /\ notified' = <<>>
    /\ UNCHANGED <<config, pollingInterval, timers, lastKnownPRs, git,
                   repositoryInfo, ticks, solo, lastResp, known, announced>>
    /\ UNCHANGED cvars

\* The refresh a query waits for ends, having found the remotes `remotes`.
QueryRepositoryInfo(q, remotes) ==
    /\ q \in 1..Len(queries)
    /\ queries[q].pc = "repo"
    /\ repositoryInfo' = Found(remotes)
    /\ queries' = SubSeq(queries, 1, q - 1)
                  \o AfterRepositoryInfo(queries[q], Found(remotes), config.branches)
                  \o SubSeq(queries, q + 1, Len(queries))
    /\ notified' = <<>>
    /\ UNCHANGED <<config, pollingInterval, timers, lastKnownPRs, git, ticks,
                   solo, lastResp, known, announced>>
    /\ UNCHANGED cvars

\* The query step keeping what it fetched as the history of the remote, as
\* the poll tick does.
QueryPullRequestsStoring(q, body, ok) ==
    /\ q \in 1..Len(queries)
    /\ queries[q].pc = "host"
    /\ LET c == queries[q]
           remote == c.remotes[c.i]
           prs == GetPullRequests(remote.type, body, ok, c.branches)
           pushed == [c EXCEPT !.allPRs = @ \o prs,
                               !.failed = IF ok THEN @ ELSE @ \cup {remote.name}]
       IN  /\ queries' = SubSeq(queries, 1, q - 1)
                         \o EnterRemoteLoop(pushed, c.remotes, c.i + 1, config.branches)
                         \o SubSeq(queries, q + 1, Len(queries))
           /\ lastKnownPRs' = MapSet(lastKnownPRs, remote.name, prs)
    /\ notified' = <<>>
    /\ UNCHANGED <<config, pollingInterval, timers, git, repositoryInfo, ticks,
                   solo, lastResp, known, announced>>
    /\ UNCHANGED cvars

\* The answer of the host for the remote a query waits on arrives.
QueryPullRequests(q, body, ok) ==
    /\ q \in 1..Len(queries)
    /\ queries[q].pc = "host"
    /\ LET c == queries[q]
           remote == c.remotes[c.i]
           prs == GetPullRequests(remote.type, body, ok, c.branches)
           pushed == [c EXCEPT !.allPRs = @ \o prs,
                               !.failed = IF ok THEN @ ELSE @ \cup {remote.name}]
       IN  queries' = SubSeq(queries, 1, q - 1)
                      \o EnterRemoteLoop(pushed, c.remotes, c.i + 1, config.branches)
                      \o SubSeq(queries, q + 1, Len(queries))
    /\ notified' = <<>>
    /\ UNCHANGED <<config, pollingInterval, timers, lastKnownPRs, git,
                   repositoryInfo, ticks, solo, lastResp, known, announced>>
    /\ UNCHANGED cvars

\* ----------------------------------------- configuration store, actions

\* The calls in flight as clearCache() leaves them: each began before it, and
\* what a call read and has not stored yet was read before it.
Cleared(calls) ==
    [l \in 1..Len(calls) |->
        [calls[l] EXCEPT !.early = TRUE, !.old = (@ \/ calls[l].pc = "candidate")]]

\* A call of loadConfiguration() by a command that shows its result only.
LoadConfiguration ==
    /\ Len(loads) < MaxLoads
    /\ Settle(loads, Len(loads) + 1, BeginLoad(configCache, "command"), <<>>)
    /\ ran' = <<>>
    /\ UNCHANGED <<files, settings, configCache, now, oldKeys, timeouts, pending,
                   burst, createVars,
                   pureVars, gitVars, mvars>>

\* A handler of extension.ts that sets the status to loading with the label
\* and awaits loadConfiguration().
LoadShowing(caller, label) ==
    /\ Len(loads) < MaxLoads
    /\ Settle(loads, Len(loads) + 1, BeginLoad(configCache, caller),
              <<[state |-> "loading", label |-> label]>>)
    /\ ran' = <<>>
    /\ UNCHANGED <<files, settings, configCache, now, oldKeys, timeouts, pending,
                   burst, createVars,
                   pureVars, gitVars, mvars>>

\* initializeExtension(), which activate() calls once, up to its await of
\* the load.
InitializeExtension ==
    /\ status = NoStatus
    /\ LoadShowing("initialize", "Initializing...")

\* validateConfiguration() of extension.ts, the den.validateConfig command,
\* up to its await of the load.
ValidateConfigurationCommand ==
    /\ status # NoStatus
    /\ LoadShowing("validate", "Validating...")

\* reloadConfiguration(), up to its await of the load.
ReloadConfiguration ==
    /\ status # NoStatus
    /\ LoadShowing("reload", "Reloading...")

\* The continuation of the call at place l of `loads`, from its await to the
\* next one or to its return.
LoadStep(l) ==
    /\ l \in 1..Len(loads)
    /\ configCache' = CacheAfter(loads[l])
    /\ oldKeys' =
         IF loads[l].pc = "candidate" /\ loads[l].pending # None
         THEN IF loads[l].old
              THEN oldKeys \cup {settings.folders[loads[l].f]}
              ELSE oldKeys \ {settings.folders[loads[l].f]}
         ELSE oldKeys
    /\ Settle(loads, l, ResumeLoad(loads[l]), <<>>)
    /\ ran' = <<>>
    /\ UNCHANGED <<files, settings, now, timeouts, pending, burst, createVars,
                   pureVars, gitVars, mvars>>

\* clearCache(), as the den.clearCache command calls it.
ClearCache ==
    /\ configCache' = NoCache
    /\ oldKeys' = {}
    /\ loads' = Cleared(loads)
    /\ returned' = <<>>
    /\ ran' = <<>>
    /\ UNCHANGED <<files, settings, now, timeouts, pending, burst, statusVars,
                   createVars, inits,
                   pureVars, gitVars, mvars>>

\* deactivate(): the managers are disposed in turn, the watcher last. The
\* configuration store clears its cache, the GitManager drops its client and
\* its snapshot, the watcher stops its timer and clears the history; the
\* calls in flight are left to run (the disposal of the status items is left
\* out).
Deactivate ==
    /\ configCache' = NoCache
    /\ oldKeys' = {}
    /\ loads' = Cleared(loads)
    /\ returned' = <<>>
    /\ git' = FALSE
    /\ repositoryInfo' = None
    /\ ClearPollingInterval
    /\ lastKnownPRs' = EmptyMap
    /\ known' = NoKnown
    /\ announced' = NoKnown
    /\ notified' = <<>>
    /\ UNCHANGED <<config, ticks, queries, solo, lastResp>>
    /\ UNCHANGED <<files, settings, now, createVars, inits, watchVars, pureVars, gitVars>>

\* The user sets den.configPath (None: leaves it empty).
Configure(path) ==
    /\ settings.configPath # path
    /\ settings' = [settings EXCEPT !.configPath = path]
    /\ returned' = <<>>
    /\ ran' = <<>>
    /\ UNCHANGED <<files, configCache, now, loads, oldKeys, timeouts, pending,
                   burst, statusVars, createVars, inits,
                   pureVars, gitVars, mvars>>

\* The clock moves on by d ms, MaxAdvances times at most.
Advance(d) ==
    /\ now + d <= MaxAdvances * d
    /\ now' = now + d
    /\ returned' = <<>>
    /\ ran' = <<>>
    /\ UNCHANGED <<files, settings, configCache, loads, oldKeys, timeouts,
                   pending, burst, statusVars, createVars, inits,
                   pureVars, gitVars, mvars>>

\* ------------------------------------------------ file watcher, actions

\* The names the watchers' pattern **/den.{yml,yaml,json} matches.
Watched(name) == name \in {"den.yml", "den.yaml", "den.json"}

\* The debounce timer the handle of a class refers to, if it has one.
HandleTimer(dir, class) ==
    IF timeouts[dir][class] = None THEN {}
    ELSE {[dir |-> dir, class |-> class, at |-> timeouts[dir][class][1]]}

\* The timers set after a handler that sets its timer without clearing the
\* one its handle refers to.
TimersAfterEventKeeping(dir, class) ==
    pending \cup {[dir |-> dir, class |-> class, at |-> now + Debounce]}

\* The timers set after the handler of a class has run: clearTimeout of the
\* handle's timer, then setTimeout(..., 500).
TimersAfterEvent(dir, class) ==
    (pending \ HandleTimer(dir, class))
    \cup {[dir |-> dir, class |-> class, at |-> now + Debounce]}

\* watcher.onDidCreate / onDidChange / onDidDelete of folder dir, for an
\* event about a file called name; an unwatched name raises no event.
OnDidEvent(dir, name, class) ==
    IF Watched(name)
    THEN /\ burst[dir][class] < MaxBurst
         /\ pending' = TimersAfterEvent(dir, class)
         /\ timeouts' = [timeouts EXCEPT ![dir][class] = Some(now + Debounce)]
         /\ burst' = [burst EXCEPT ![dir][class] = @ + 1]
    ELSE UNCHANGED <<pending, timeouts, burst>>

\* A program writes `text` to the file called name of folder dir, and the
\* watcher reports it.
WriteFile(dir, name, text) ==
    /\ text # None
    /\ files' = [files EXCEPT ![Join(dir, name)] = text]
    /\ OnDidEvent(dir, name, IF files[Join(dir, name)] = None THEN "create" ELSE "change")
    /\ returned' = <<>>
    /\ ran' = <<>>
    /\ UNCHANGED <<settings, configCache, now, loads, oldKeys, statusVars, createVars, inits,
                   pureVars, gitVars, mvars>>

\* A program deletes the file called name of folder dir, and the watcher
\* reports it.
DeleteFile(dir, name) ==
    /\ files[Join(dir, name)] # None
    /\ files' = [files EXCEPT ![Join(dir, name)] = None]
    /\ OnDidEvent(dir, name, "delete")
    /\ returned' = <<>>
    /\ ran' = <<>>
    /\ UNCHANGED <<settings, configCache, now, loads, oldKeys, statusVars, createVars, inits,
                   pureVars, gitVars, mvars>>

\* The debounce timer t runs: clearCache(), then validateAndUpdateStatus() up
\* to its await of the load, or the status of a deleted file. The handle
\* keeps referring to the timer that has run.
DebounceFire(t) ==
    /\ t \in pending
    /\ now >= t.at
    /\ pending' = pending \ {t}
    /\ burst' = [burst EXCEPT ![t.dir][t.class] = 0]
    /\ ran' = <<[dir |-> t.dir, class |-> t.class, events |-> burst[t.dir][t.class]]>>
    /\ configCache' = NoCache
    /\ oldKeys' = {}
    /\ IF t.class = "delete"
       THEN /\ loads' = Cleared(loads)
            /\ returned' = <<>>
            /\ UNCHANGED inits
            /\ Show(<<[state |-> "warning", label |-> "No config found"]>>)
       ELSE /\ Len(loads) < MaxLoads
            /\ Settle(Cleared(loads), Len(loads) + 1, BeginLoad(NoCache, "revalidate"),
                      <<[state |-> "loading", label |-> "Validating new config..."]>>)
    /\ UNCHANGED <<files, settings, now, timeouts, createVars,
                   pureVars, gitVars, mvars>>

\* ------------------------------------------ den.createConfig, actions

\* path.join(workspaceFolders[0].uri.fsPath, 'den.yml')
DefaultConfigPath == Join(settings.folders[1], "den.yml")

Message(kind, text) == [kind |-> kind, text |-> text]

\* validateAndUpdateStatus() up to its await of the load, the calls in flight
\* being `calls`.
Revalidate(cache, calls) ==
    /\ Len(calls) < MaxLoads
    /\ Settle(calls, Len(calls) + 1, BeginLoad(cache, "revalidate"),
              <<[state |-> "loading", label |-> "Validating new config..."]>>)

\* createDefaultConfig() from the write on, the calls of it in flight being
\* `calls`: the write succeeds (ok) and the call goes on to open the file,
\* or it throws and the call returns to the command, which revalidates.
WriteDefaultConfig(calls, ok) ==
    IF ok
    THEN /\ files' = [files EXCEPT ![DefaultConfigPath] = Some(YamlDump(DefaultConfig))]
         /\ OnDidEvent(DefaultConfigPath.dir, DefaultConfigPath.name,
                       IF files[DefaultConfigPath] = None THEN "create" ELSE "change")
         /\ configCache' = NoCache
         /\ oldKeys' = {}
         /\ loads' = Cleared(loads)
         /\ returned' = <<>>
         /\ notices' = <<Message("info", "Default configuration created successfully")>>
         /\ creates' = Append(calls, [pc |-> "open"])
         /\ UNCHANGED <<statusVars, inits>>
    ELSE /\ notices' = <<Message("error", "Failed to create configuration")>>
         /\ creates' = calls
         /\ Revalidate(configCache, loads)
         /\ UNCHANGED <<files, configCache, oldKeys, timeouts, pending, burst>>

\* The den.createConfig command up to its first await: createDefaultConfig()
\* up to the overwrite prompt when den.yml exists, else through the write,
\* which succeeds or throws.
CreateDefaultConfig(ok) ==
    /\ Len(creates) < MaxCreates
    /\ IF settings.folders = <<>>
       THEN /\ notices' = <<Message("error", "No workspace folder found")>>
            /\ Revalidate(configCache, loads)
            /\ UNCHANGED <<files, configCache, oldKeys, creates, timeouts, pending,
                           burst>>
       ELSE IF files[DefaultConfigPath] # None
       THEN /\ creates' = Append(creates, [pc |-> "prompt"])
            /\ notices' = <<Message("warning",
                                    "Configuration file already exists. Overwrite?")>>
            /\ returned' = <<>>
            /\ UNCHANGED <<files, configCache, oldKeys, loads, timeouts, pending,
                           burst, statusVars, inits>>
       ELSE WriteDefaultConfig(creates, ok)
    /\ ran' = <<>>
    /\ UNCHANGED <<settings, now, pureVars, gitVars, mvars>>

\* The answers to the overwrite prompt: a button, or none when it is closed.
OverwriteAnswers == {"Yes", "No", "undefined"}

\* The user answers the prompt of the call at place c of `creates`.
AnswerOverwrite(c, answer, ok) ==
    /\ c \in 1..Len(creates)
    /\ creates[c].pc = "prompt"
    /\ IF answer # "Yes"
       THEN /\ creates' = RemoveAt(creates, c)
            /\ notices' = <<>>
            /\ Revalidate(configCache, loads)
            /\ UNCHANGED <<files, configCache, oldKeys, timeouts, pending, burst>>
       ELSE WriteDefaultConfig(RemoveAt(creates, c), ok)
    /\ ran' = <<>>
    /\ UNCHANGED <<settings, now, pureVars, gitVars, mvars>>

\* openTextDocument and showTextDocument of the call at place c end: the
\* file is shown, or one of them throws; createDefaultConfig() returns and
\* the command revalidates.
DocumentShown(c, ok) ==
    /\ c \in 1..Len(creates)
    /\ creates[c].pc = "open"
    /\ creates' = RemoveAt(creates, c)
    /\ notices' = IF ok THEN <<>>
                  ELSE <<Message("error", "Failed to create configuration")>>
    /\ Revalidate(configCache, loads)
    /\ ran' = <<>>
    /\ UNCHANGED <<files, settings, configCache, now, oldKeys, timeouts, pending,
                   burst, pureVars, gitVars, mvars>>

\* updateGitStatus() called by `by`: getRepositoryInfo() answers from the
\* stored snapshot, which is shown, answers null without a repository, and
\* else starts a refresh.
UpdateGitStatus(by) ==
    IF repositoryInfo # None
    THEN /\ gitStatusBarItem' = GitStatusOf(repositoryInfo[1])
         /\ UNCHANGED refreshes
    ELSE IF ~git THEN UNCHANGED <<gitStatusBarItem, refreshes>>
    ELSE /\ Len(refreshes) < MaxRefreshes
         /\ refreshes' = Append(refreshes, NewRefresh(by, ""))
         /\ UNCHANGED gitStatusBarItem

\* isGitRepository() answers an initializeGit() call: in a repository with
\* monitoring enabled the call starts the watcher and updates the Git status
\* item (whose visibility is left out).
InitializeGit(isGitRepo) ==
    /\ inits > 0
    /\ inits' = inits - 1
    /\ IF isGitRepo /\ config.enabled
       THEN /\ StartMonitoringWith(config)
            /\ UpdateGitStatus("initializeGit")
       ELSE UNCHANGED <<pollingInterval, timers, ticks, solo, lastResp,
                        gitStatusBarItem, refreshes>>
    /\ notified' = <<>>
    /\ UNCHANGED <<config, lastKnownPRs, git, repositoryInfo, queries, known, announced>>
    /\ UNCHANGED <<files, settings, configCache, now, loads, returned, oldKeys,
                   createVars, watchVars, pureVars>>
    /\ UNCHANGED <<worktree, switches, switched, lastRefresh, changes>>

\* ---------------------------------------------------- GitManager, actions

\* What the steps of the GitManager leave alone.
otherVars ==
    <<config, pollingInterval, timers, lastKnownPRs, git, ticks, queries, notified,
      solo, lastResp, known, announced, files, settings, configCache, now, loads, returned,
      oldKeys, creates, inits, watchVars, pureVars>>

\* The repositories one change from outside makes of `tree`: another branch
\* checked out, a remote added, a file modified.
OutsideTrees(tree) ==
    {[tree EXCEPT !.currentBranch = b] : b \in BranchNames \ {tree.currentBranch}}
    \cup {[tree EXCEPT !.remotes = Append(@, r)] :
             r \in {x \in {Origin, Upstream} : \A j \in 1..Len(tree.remotes) : tree.remotes[j] # x}}
    \cup {[tree EXCEPT !.modified = 1 - @]}

\* Somebody changes the repository outside the extension.
ChangeOutside(tree) ==
    /\ changes < MaxChanges
    /\ tree \in OutsideTrees(worktree)
    /\ worktree' = tree
    /\ changes' = changes + 1
    /\ switched' = <<>>
    /\ notices' = <<>>
    /\ UNCHANGED <<repositoryInfo, refreshes, switches, gitStatusBarItem, lastRefresh>>
    /\ UNCHANGED otherVars

\* What follows a refreshRepositoryInfo() call that has answered `info` (None
\* is null), the snapshot stored being `stored`: switchBranch returns true
\* and switchGitBranch shows the stored snapshot, refreshGitStatus and
\* initializeGit show the answer.
AfterRefresh(call, info, stored) ==
    IF call.caller = "switchBranch"
    THEN /\ switched' = <<[name |-> call.name, result |-> TRUE]>>
         /\ notices' = <<Message("info", <<"Switched to branch: ", call.name>>)>>
         /\ gitStatusBarItem' = IF stored # None THEN GitStatusOf(stored[1])
                                ELSE gitStatusBarItem
    ELSE /\ switched' = <<>>
         /\ notices' = IF call.caller = "refreshGitStatus"
                       THEN <<Message("info", "Git status refreshed")>> ELSE <<>>
         /\ gitStatusBarItem' = IF call.caller = "constructor" \/ info = None
                                THEN gitStatusBarItem ELSE GitStatusOf(info[1])

\* One of the four queries of the refresh at place r is answered: a
\* rejection ends the call with null; the answer that completes the four
\* stores the snapshot and ends the call with it.
RefreshStep(r, field, ok) ==
    /\ r \in 1..Len(refreshes)
    /\ refreshes[r].answers[field] = None
    /\ LET call == refreshes[r]
           promise == Query(field, worktree, ok, now)
           next == [call EXCEPT !.answers[field] = Some(promise.value),
                                !.failed = IF ok THEN @ ELSE @ \cup {field},
                                !.seen[field] = Some(Query(field, worktree, TRUE, now).value)]
       IN  IF promise.rejected
           THEN /\ refreshes' = RemoveAt(refreshes, r)
                /\ AfterRefresh(call, None, repositoryInfo)
                /\ UNCHANGED <<repositoryInfo, lastRefresh>>
           ELSE IF \E f \in Fields : next.answers[f] = None
           THEN /\ refreshes' = [refreshes EXCEPT ![r] = next]
                /\ switched' = <<>>
                /\ notices' = <<>>
                /\ UNCHANGED <<repositoryInfo, lastRefresh, gitStatusBarItem>>
           ELSE /\ refreshes' = RemoveAt(refreshes, r)
                /\ repositoryInfo' = Some(RepositoryInfoOf(next.answers))
                /\ lastRefresh' = [failed |-> next.failed, seen |-> next.seen]
                /\ AfterRefresh(call, repositoryInfo', repositoryInfo')
    /\ UNCHANGED <<worktree, switches, changes>>
    /\ UNCHANGED otherVars

\* A switchBranch that runs its refresh whatever the checkout did.
AfterCheckoutAlways(call, ok) == <<NewRefresh("switchBranch", call.name)>>

\* The refresh switchBranch starts once its checkout has ended.
AfterCheckout(call, ok) ==
    IF ok THEN <<NewRefresh("switchBranch", call.name)>> ELSE <<>>

\* switchBranch(name) of the den.git.switchBranch command, up to its await of
\* the checkout.
SwitchBranch(name) ==
    /\ IF ~git
       THEN /\ switched' = <<[name |-> name, result |-> FALSE]>>
            /\ notices' = <<Message("error", <<"Failed to switch to branch: ", name>>)>>
            /\ UNCHANGED switches
       ELSE /\ Len(switches) < MaxSwitches
            /\ switches' = Append(switches, [name |-> name])
            /\ switched' = <<>>
            /\ notices' = <<>>
    /\ UNCHANGED <<repositoryInfo, worktree, refreshes, gitStatusBarItem, lastRefresh, changes>>
    /\ UNCHANGED otherVars

\* The checkout of the call at place s ends: done, the branch is checked out
\* and the refresh begins; failed, the call returns false.
Checkout(s, ok) ==
    /\ s \in 1..Len(switches)
    /\ LET call == switches[s]
           begun == AfterCheckout(call, ok)
       IN  /\ Len(refreshes) + Len(begun) <= MaxRefreshes
           /\ switches' = RemoveAt(switches, s)
           /\ worktree' = IF ok THEN [worktree EXCEPT !.currentBranch = call.name]
                          ELSE worktree
           /\ refreshes' = refreshes \o begun
           /\ switched' = IF ok THEN <<>> ELSE <<[name |-> call.name, result |-> FALSE]>>
           /\ notices' = IF ok THEN <<>>
                         ELSE <<Message("error", <<"Failed to switch to branch: ", call.name>>)>>
    /\ UNCHANGED <<repositoryInfo, gitStatusBarItem, lastRefresh, changes>>
    /\ UNCHANGED otherVars

\* The den.git.refreshGitStatus command; its message follows the refresh
\* where one is started.
RefreshGitStatus ==
    /\ UpdateGitStatus("refreshGitStatus")
    /\ notices' = IF repositoryInfo = None /\ git THEN <<>>
                  ELSE <<Message("info", "Git status refreshed")>>
    /\ switched' = <<>>
    /\ UNCHANGED <<repositoryInfo, worktree, switches, lastRefresh, changes>>
    /\ UNCHANGED otherVars

\* A call of setStatus(s, t) by any of the command handlers.
SetStatusCall(s, t) ==
    /\ Show(<<[state |-> s, label |-> t]>>)
    /\ UNCHANGED <<storeVars, timeouts, pending, burst, ran, createVars, inits,
                   pureVars, gitVars, mvars>>

\* updateStatus(s, t).
UpdateStatus(s, t) == SetStatusCall(s, t)

\* The watcher in a repository with at most one remote on a known host,
\* polling at the default interval.
Next ==
    \/ StartMonitoring
    \/ StopMonitoring
    \/ \E newConfig \in DefaultIntervalConfigs : UpdateConfig(newConfig)
    \/ Dispose
    \/ \E j \in 1..MaxTimers : TimerFire(j)
    \/ \E k \in 1..MaxInFlight, remotes \in OneHostRemoteLists :
          TickRepositoryInfo(k, remotes)
    \/ \E k \in 1..MaxInFlight, body \in HostLists, ok \in BOOLEAN :
          TickPullRequests(k, body, ok)

Spec == Init /\ [][Next]_vars

\* The on-demand query (den.git.showPRs) beside the poll ticks of a started
\* watcher, in a repository with any of the remote lists and hosts that hold
\* at most one open request.
NextQuery ==
    \/ StartMonitoring
    \/ \E j \in 1..MaxTimers : TimerFire(j)
    \/ \E k \in 1..MaxInFlight, remotes \in RemoteLists : TickRepositoryInfo(k, remotes)
    \/ \E k \in 1..MaxInFlight, body \in LastIdHostLists, ok \in BOOLEAN :
          TickPullRequests(k, body, ok)
    \/ GetCurrentPullRequests
    \/ \E q \in 1..MaxQueries, remotes \in RemoteLists : QueryRepositoryInfo(q, remotes)
    \/ \E q \in 1..MaxQueries, body \in LastIdHostLists, ok \in BOOLEAN :
          QueryPullRequests(q, body, ok)

SpecQuery == Init /\ [][NextQuery]_vars

\* The poll ticks of a started watcher in a repository with any of the remote
\* lists, two remotes on known hosts among them.
NextRemotes ==
    \/ StartMonitoring
    \/ \E j \in 1..MaxTimers : TimerFire(j)
    \/ \E k \in 1..MaxInFlight, remotes \in RemoteLists : TickRepositoryInfo(k, remotes)
    \/ \E k \in 1..MaxInFlight, body \in HostLists, ok \in BOOLEAN :
          TickPullRequests(k, body, ok)

SpecRemotes == Init /\ [][NextRemotes]_vars

\* The poll ticks and the on-demand query in a repository with a remote on
\* each of the three hosts, each host holding requests to both branches,
\* under each configuration.
HostedRemotes == <<Origin, Upstream, Mirror>>

NextBranches ==
    \/ StartMonitoring
    \/ \E j \in 1..MaxTimers : TimerFire(j)
    \/ \E k \in 1..MaxInFlight : TickRepositoryInfo(k, HostedRemotes)
    \/ \E k \in 1..MaxInFlight, body \in FullHostLists :
          TickPullRequests(k, body, TRUE)
    \/ GetCurrentPullRequests
    \/ \E q \in 1..MaxQueries : QueryRepositoryInfo(q, HostedRemotes)
    \/ \E q \in 1..MaxQueries, body \in FullHostLists :
          QueryPullRequests(q, body, TRUE)

SpecBranches == Init /\ [][NextBranches]_vars

\* The timers of the watcher under every configured interval, with hosts
\* that hold no open request.
InitTimers ==
    /\ config \in Configs
    /\ pollingInterval = 0
    /\ timers = <<>>
    /\ lastKnownPRs = EmptyMap
    /\ git \in BOOLEAN
    /\ repositoryInfo = None
    /\ ticks = <<>>
    /\ queries = <<>>
    /\ notified = <<>>
    /\ solo = TRUE
    /\ lastResp = NoResp
    /\ known = NoKnown
    /\ announced = NoKnown
    /\ StoreStart

NextTimers ==
    \/ StartMonitoring
    \/ StopMonitoring
    \/ \E newConfig \in Configs : UpdateConfig(newConfig)
    \/ Dispose
    \/ \E j \in 1..MaxTimers : TimerFire(j)
    \/ \E k \in 1..MaxInFlight, remotes \in OneHostRemoteLists :
          TickRepositoryInfo(k, remotes)
    \/ \E k \in 1..MaxInFlight, ok \in BOOLEAN : TickPullRequests(k, <<>>, ok)

SpecTimers == InitTimers /\ [][NextTimers]_vars

\* ------------------------------------------------ the pure functions

\* The watcher before activation, for the specifications of the store.
MonitorStart ==
    /\ config = [enabled |-> FALSE, branches |-> <<"main">>,
                 pollingInterval |-> DefaultPollingInterval,
                 showNotifications |-> FALSE]
    /\ pollingInterval = 0
    /\ timers = <<>>
    /\ lastKnownPRs = EmptyMap
    /\ git = FALSE
    /\ repositoryInfo = None
    /\ ticks = <<>>
    /\ queries = <<>>
    /\ notified = <<>>
    /\ solo = TRUE
    /\ lastResp = NoResp
    /\ known = NoKnown
    /\ announced = NoKnown

\* ------------------------------------------------------ the status bar

\* Labels the handlers of extension.ts show.
StatusLabels == {"Ready", "Config Valid", "No config found"}

InitStatus ==
    /\ MonitorStart
    /\ files = EmptyDisk
    /\ settings = DefaultSettings
    /\ StoreIdle
    /\ TimersIdle
    /\ StatusIdle
    /\ GitIdle
    /\ PureIdle

NextStatus ==
    \/ \E s \in StatusTypes, t \in StatusLabels : SetStatusCall(s, t)
    \/ \E s \in StatusTypes, t \in StatusLabels : UpdateStatus(s, t)

SpecStatus == InitStatus /\ [][NextStatus]_vars

\* validateConfig applied to what a parser returned.
InitCoerce ==
    /\ MonitorStart
    /\ files = EmptyDisk
    /\ settings = DefaultSettings
    /\ StoreIdle
    /\ WatchIdle
    /\ GitIdle
    /\ arg \in DecodedValues
    /\ out = <<>>

ApplyValidateConfig ==
    /\ out = <<>>
    /\ out' = <<ValidateConfig(arg)>>
    /\ UNCHANGED <<arg, storeVars, watchVars, gitVars, mvars>>

NextCoerce == ApplyValidateConfig

SpecCoerce == InitCoerce /\ [][NextCoerce]_vars

\* validateConfiguration(config) applied to the record a load returned, as the
\* validate command and the reload do.
ValidateLoaded ==
    /\ Len(out) = 1
    /\ out[1] # None
    /\ out' = Append(out, ValidateConfiguration(out[1][1]))
    /\ UNCHANGED <<arg, storeVars, watchVars, gitVars, mvars>>

NextLoaded ==
    \/ ApplyValidateConfig
    \/ ValidateLoaded

SpecLoaded == InitCoerce /\ [][NextLoaded]_vars

\* The records validateConfig returns.
CoercedRecords ==
    {ValidateConfig(v)[1] : v \in {w \in DecodedValues : ValidateConfig(w) # None}}

\* validateConfiguration applied to a record: one that a load returned, which
\* the cache may hold, or any other a caller hands in.
InitValidate ==
    /\ MonitorStart
    /\ files = EmptyDisk
    /\ settings = DefaultSettings
    /\ now = 0
    /\ loads = <<>>
    /\ returned = <<>>
    /\ oldKeys = {}
    /\ creates = <<>>
    /\ notices = <<>>
    /\ inits = 0
    /\ WatchIdle
    /\ GitIdle
    /\ arg \in FieldChoices \cup CoercedRecords
    /\ configCache \in
         {NoCache} \cup
         (IF arg \in CoercedRecords
          THEN {[dir \in {WorkspaceFolders[1]} |-> [config |-> arg, timestamp |-> 0]]}
          ELSE {})
    /\ out = <<>>

ApplyValidateConfiguration ==
    /\ out = <<>>
    /\ out' = <<ValidateConfiguration(arg)>>
    /\ UNCHANGED <<arg, storeVars, watchVars, gitVars, mvars>>

NextValidate == ApplyValidateConfiguration

SpecValidate == InitValidate /\ [][NextValidate]_vars

\* ------------------------------------------------- the store's cache

\* The clock of the cache's specification moves by a third of the timeout.
CacheTick == CacheTimeout \div 3

\* A file that decodes to a configuration named n.
YamlNamed(n) == Some(Text("yaml", Obj([f \in {"name"} |-> Str(n)])))
JsonNamed(n) == Some(Text("json", Obj([f \in {"name"} |-> Str(n)])))
\* A file no parser accepts.
Garbled == Some(Text("bad", Undefined))

\* Disks of the cache's specification: no file; a file in the first folder;
\* a garbled file in the first folder and a good one in the second.
CacheDisks ==
    {EmptyDisk,
     [EmptyDisk EXCEPT ![Join("a", "den.yml")] = YamlNamed("one")],
     [EmptyDisk EXCEPT ![Join("a", "den.yaml")] = Garbled,
                       ![Join("b", "den.json")] = JsonNamed("two")]}

\* Values of the den.cacheTimeout setting, all in its documented range.
CacheTimeoutSettings == {CacheTimeout \div 3, CacheTimeout, CacheTimeout * 2}

InitCache ==
    /\ MonitorStart
    /\ files \in CacheDisks
    /\ settings \in {[DefaultSettings EXCEPT !.cacheTimeout = t] :
                        t \in CacheTimeoutSettings}
    /\ StoreIdle
    /\ WatchIdle
    /\ GitIdle
    /\ PureIdle

NextCache ==
    \/ LoadConfiguration
    \/ \E l \in 1..MaxLoads : LoadStep(l)
    \/ ClearCache
    \/ Advance(CacheTick)

SpecCache == InitCache /\ [][NextCache]_vars

\* The store with the clock moving between the turns of the event loop only:
\* a call in flight awaits nothing outside the program, so it ends in the
\* turn it began in, the commands of that turn running beside it.
NextStale ==
    \/ LoadConfiguration
    \/ \E l \in 1..MaxLoads : LoadStep(l)
    \/ ClearCache
    \/ loads = <<>> /\ Advance(CacheTick)

SpecStale == InitCache /\ [][NextStale]_vars

\* --------------------------------------------- the store's discovery

\* Text that decodes to a string, not to an object.
PlainText == Some(Text("yaml", Str("text")))

\* Disks of the discovery's specification: each of six files is missing or
\* holds one of a few texts.
DiscoverDisks ==
    {[p \in Paths |->
        CASE p = Join("a", "den.yml") -> choice.first
          [] p = Join("a", "den.json") -> choice.third
          [] p = Join("a", ".den.yaml") -> choice.fifth
          [] p = Join("b", "den.yaml") -> choice.other
          [] p = Join("etc", "custom.json") -> choice.json
          [] p = Join("etc", "custom.toml") -> choice.toml
          [] OTHER -> None] :
     choice \in [first : {None, YamlNamed("first"), Garbled, PlainText},
                 third : {None, JsonNamed("third"), YamlNamed("yaml in json")},
                 fifth : {None, YamlNamed("fifth")},
                 other : {None, JsonNamed("other")},
                 json : {None, JsonNamed("custom"), Garbled},
                 toml : {YamlNamed("toml")}]}

ConfigPaths == {None} \cup {Some(Join("etc", n)) : n \in CustomFileNames}

DiscoverSettings ==
    [configPath : ConfigPaths, autoSearch : BOOLEAN,
     folders : {<<>>, WorkspaceFolders}, cacheTimeout : {CacheTimeout}]

InitDiscover ==
    /\ MonitorStart
    /\ files \in DiscoverDisks
    /\ settings \in DiscoverSettings
    /\ StoreIdle
    /\ WatchIdle
    /\ GitIdle
    /\ PureIdle

NextDiscover ==
    \/ LoadConfiguration
    \/ \E l \in 1..MaxLoads : LoadStep(l)

SpecDiscover == InitDiscover /\ [][NextDiscover]_vars

\* Disks of the override's specification: a file to discover or none, and
\* the two override files.
OverrideDisks ==
    {[EmptyDisk EXCEPT ![Join("a", "den.yml")] = first,
                       ![Join("etc", "custom.json")] = json,
                       ![Join("etc", "custom.toml")] = YamlNamed("toml")] :
     first \in {None, YamlNamed("first")},
     json \in {None, JsonNamed("custom"), Garbled}}

InitOverride ==
    /\ MonitorStart
    /\ files \in OverrideDisks
    /\ settings \in {[DefaultSettings EXCEPT !.configPath = path] : path \in ConfigPaths}
    /\ StoreIdle
    /\ WatchIdle
    /\ GitIdle
    /\ PureIdle

NextOverride ==
    \/ LoadConfiguration
    \/ \E l \in 1..MaxLoads : LoadStep(l)
    \/ ClearCache
    \/ \E path \in ConfigPaths : Configure(path)

SpecOverride == InitOverride /\ [][NextOverride]_vars

\* ------------------------------------------------- the file watchers

\* The clock of the watchers' specification moves by half the debounce.
WatchTick == Debounce \div 2

\* The files the watchers' specification writes and deletes: the candidates
\* of the first folder, one on the disk at a time.
WatchFiles == {Join("a", ConfigFileNames[c]) : c \in 1..Len(ConfigFileNames)}

InitWatch ==
    /\ MonitorStart
    /\ files = EmptyDisk
    /\ settings = DefaultSettings
    /\ StoreIdle
    /\ WatchIdle
    /\ GitIdle
    /\ PureIdle

\* File events, timers and the clock are tasks of the event loop: one starts
\* only when the continuations of the calls in flight have all run.
NextWatch ==
    \/ \E p \in WatchFiles :
          /\ loads = <<>>
          /\ \A q \in WatchFiles \ {p} : files[q] = None
          /\ WriteFile(p.dir, p.name, JsonNamed("new"))
    \/ \E p \in WatchFiles : loads = <<>> /\ DeleteFile(p.dir, p.name)
    \/ \E t \in pending : loads = <<>> /\ DebounceFire(t)
    \/ \E l \in 1..MaxLoads : LoadStep(l)
    \/ loads = <<>> /\ Advance(WatchTick)

SpecWatch == InitWatch /\ [][NextWatch]_vars

\* The status item from the activation on, beside the commands that set it
\* and the file watcher of the first folder, outside a repository. The
\* commands start in any order, also with loads in flight; file events,
\* timers and the clock are tasks of the event loop.
InitLoading ==
    /\ MonitorStart
    /\ files \in {EmptyDisk, [EmptyDisk EXCEPT ![Join("a", "den.json")] = JsonNamed("")]}
    /\ settings = DefaultSettings
    /\ StoreIdle
    /\ TimersIdle
    /\ StatusIdle
    /\ GitIdle
    /\ PureIdle

NextLoading ==
    \/ InitializeExtension
    \/ ValidateConfigurationCommand
    \/ ReloadConfiguration
    \/ /\ status # NoStatus
       /\ loads = <<>>
       /\ WriteFile("a", "den.json", JsonNamed("new"))
    \/ \E t \in pending : loads = <<>> /\ DebounceFire(t)
    \/ \E l \in 1..MaxLoads : LoadStep(l)
    \/ loads = <<>> /\ Advance(WatchTick)

SpecLoading == InitLoading /\ [][NextLoading]_vars

\* Disks of the delete handler's specification: one candidate; two
\* candidates in the first folder; one in each folder.
DeleteDisks ==
    {[EmptyDisk EXCEPT ![Join("a", "den.json")] = JsonNamed("one")],
     [EmptyDisk EXCEPT ![Join("a", "den.yml")] = YamlNamed("one"),
                       ![Join("a", "den.json")] = JsonNamed("two")],
     [EmptyDisk EXCEPT ![Join("a", "den.json")] = JsonNamed("one"),
                       ![Join("b", "den.yml")] = YamlNamed("two")]}

InitDelete ==
    /\ MonitorStart
    /\ files \in DeleteDisks
    /\ settings = DefaultSettings
    /\ StoreIdle
    /\ TimersIdle
    /\ StatusIdle
    /\ GitIdle
    /\ PureIdle

\* The activation, then files deleted from the watched folders; file events,
\* timers and the clock are tasks of the event loop.
NextDelete ==
    \/ InitializeExtension
    \/ \E p \in Paths :
          status # NoStatus /\ loads = <<>> /\ DeleteFile(p.dir, p.name)
    \/ \E t \in pending : loads = <<>> /\ DebounceFire(t)
    \/ \E l \in 1..MaxLoads : LoadStep(l)
    \/ loads = <<>> /\ Advance(WatchTick)

SpecDelete == InitDelete /\ [][NextDelete]_vars

\* ---------------------------------------------------- den.createConfig

\* Disks of the command's specification: no file; den.yml in the first
\* folder; den.json in the first folder.
CreateDisks ==
    {EmptyDisk,
     [EmptyDisk EXCEPT ![Join("a", "den.yml")] = YamlNamed("old")],
     [EmptyDisk EXCEPT ![Join("a", "den.json")] = JsonNamed("old")]}

\* The add-on activated in a repository with no remote, whose snapshot the
\* constructor's refresh has stored, the watcher enabled and not started
\* yet; the debounce timers the command's writes set stay pending (their run
\* is the matter of the watchers' specification). A load in flight awaits
\* nothing outside the program, so it ends before the next event arrives; commands may be run one after another with
\* no event between them, so a command may start while a load is in flight.
InitCreate ==
    /\ config = [enabled |-> TRUE, branches |-> <<"main">>,
                 pollingInterval |-> DefaultPollingInterval,
                 showNotifications |-> FALSE]
    /\ pollingInterval = 0
    /\ timers = <<>>
    /\ lastKnownPRs = EmptyMap
    /\ git = TRUE
    /\ repositoryInfo = Some(Snapshot(LocalTree))
    /\ ticks = <<>>
    /\ queries = <<>>
    /\ notified = <<>>
    /\ solo = TRUE
    /\ lastResp = NoResp
    /\ known = NoKnown
    /\ announced = NoKnown
    /\ files \in CreateDisks
    /\ settings = DefaultSettings
    /\ StoreIdle
    /\ WatchIdle
    /\ GitIdleOn(LocalTree)
    /\ PureIdle

NextCreate ==
    \/ \E ok \in BOOLEAN : CreateDefaultConfig(ok)
    \/ \E c \in 1..MaxCreates, answer \in OverwriteAnswers, ok \in BOOLEAN :
          loads = <<>> /\ AnswerOverwrite(c, answer, ok)
    \/ \E c \in 1..MaxCreates, ok \in BOOLEAN : loads = <<>> /\ DocumentShown(c, ok)
    \/ LoadConfiguration
    \/ \E l \in 1..MaxLoads : LoadStep(l)
    \/ \E isGitRepo \in BOOLEAN : loads = <<>> /\ InitializeGit(isGitRepo)

SpecCreate == InitCreate /\ [][NextCreate]_vars

\* ------------------------------------------------------------ GitManager

\* The add-on activated in a repository, the watcher disabled.
InitRefresh ==
    /\ config = [enabled |-> FALSE, branches |-> <<"main">>,
                 pollingInterval |-> DefaultPollingInterval,
                 showNotifications |-> FALSE]
    /\ pollingInterval = 0
    /\ timers = <<>>
    /\ lastKnownPRs = EmptyMap
    /\ git = TRUE
    /\ repositoryInfo = None
    /\ ticks = <<>>
    /\ queries = <<>>
    /\ notified = <<>>
    /\ solo = TRUE
    /\ lastResp = NoResp
    /\ known = NoKnown
    /\ announced = NoKnown
    /\ files = EmptyDisk
    /\ settings = DefaultSettings
    /\ StoreIdle
    /\ WatchIdle
    /\ GitStart
    /\ PureIdle

\* The refresh of the constructor, any query failing or not, in a repository
\* that is changed from outside.
NextRefresh ==
    \/ \E r \in 1..MaxRefreshes, field \in Fields, ok \in BOOLEAN : RefreshStep(r, field, ok)
    \/ \E tree \in OutsideTrees(worktree) : ChangeOutside(tree)

SpecRefresh == InitRefresh /\ [][NextRefresh]_vars

\* The branch switches in a repository nobody else changes, no query
\* failing.
NextSwitch ==
    \/ \E r \in 1..MaxRefreshes, field \in Fields : RefreshStep(r, field, TRUE)
    \/ \E name \in BranchNames : SwitchBranch(name)
    \/ \E s \in 1..MaxSwitches, ok \in BOOLEAN : Checkout(s, ok)

SpecSwitch == InitRefresh /\ [][NextSwitch]_vars

\* The add-on some time after its activation in a repository, the watcher
\* started: the refresh of the constructor has stored the snapshot and the
\* first tick has ended. The snapshot being there, no call starts a refresh.
InitRepository ==
    /\ config = [enabled |-> TRUE, branches |-> <<"main">>,
                 pollingInterval |-> DefaultPollingInterval,
                 showNotifications |-> FALSE]
    /\ pollingInterval = 1
    /\ timers = <<DefaultPollingInterval>>
    /\ lastKnownPRs = EmptyMap
    /\ git = TRUE
    /\ repositoryInfo = Some(Snapshot(StartTree))
    /\ ticks = <<>>
    /\ queries = <<>>
    /\ notified = <<>>
    /\ solo = TRUE
    /\ lastResp = NoResp
    /\ known = NoKnown
    /\ announced = NoKnown
    /\ files = EmptyDisk
    /\ settings = DefaultSettings
    /\ StoreIdle
    /\ WatchIdle
    /\ GitIdle
    /\ PureIdle

\* The poll ticks and the den.git.refreshGitStatus command in a repository
\* that is changed from outside.
NextRepository ==
    \/ \E j \in 1..MaxTimers : TimerFire(j)
    \/ \E k \in 1..MaxInFlight, ok \in BOOLEAN : TickPullRequests(k, <<>>, ok)
    \/ RefreshGitStatus
    \/ \E tree \in OutsideTrees(worktree) : ChangeOutside(tree)

SpecRepository == InitRepository /\ [][NextRepository]_vars

\* ------------------------------------------------------------ deactivate

\* The add-on activated in a repository.
InitDispose ==
    /\ config \in DefaultIntervalConfigs
    /\ pollingInterval = 0
    /\ timers = <<>>
    /\ lastKnownPRs = EmptyMap
    /\ git = TRUE
    /\ repositoryInfo = None
    /\ ticks = <<>>
    /\ queries = <<>>
    /\ notified = <<>>
    /\ solo = TRUE
    /\ lastResp = NoResp
    /\ known = NoKnown
    /\ announced = NoKnown
    /\ StoreStart

\* The watcher up to and after deactivate(): once the add-on is deactivated
\* (the Git client is null) no command runs, while the timers that are left
\* and the calls in flight go on.
NextDispose ==
    \/ git /\ StartMonitoring
    \/ git /\ Deactivate
    \/ \E j \in 1..MaxTimers : TimerFire(j)
    \/ \E k \in 1..MaxInFlight, remotes \in OneHostRemoteLists :
          TickRepositoryInfo(k, remotes)
    \/ \E k \in 1..MaxInFlight, body \in HostLists, ok \in BOOLEAN :
          TickPullRequests(k, body, ok)

SpecDispose == InitDispose /\ [][NextDispose]_vars

\* ----------------------------------------------------------------- claims

\* What a tick step has in hand: the remote tick k waits on, and the list
\* the host client gives it for the answer (body, ok).
RemoteOf(k) == ticks[k].remotes[ticks[k].i]
CurrentOf(k, body, ok) == GetPullRequests(RemoteOf(k).type, body, ok, ticks[k].branches)

\* The items the notifications of a step carry.
Announced(notes) == UNION {{notes[j].prs[x] : x \in 1..Len(notes[j].prs)} : j \in 1..Len(notes)}

ItemsOf(list) == {list[j] : j \in 1..Len(list)}

\* C1: a tick step for a remote name with no history entry, whose host query
\* returns at least one item, raises no notification and stores exactly the
\* returned items as the history of that name.
FirstPollSuppressed ==
    [][\A k \in 1..MaxInFlight, body \in HostLists, ok \in BOOLEAN :
          ( /\ TickPullRequests(k, body, ok)
            /\ RemoteOf(k).name \notin DOMAIN lastKnownPRs
            /\ Len(CurrentOf(k, body, ok)) >= 1 )
          => /\ notified' = <<>>
             /\ lastKnownPRs'[RemoteOf(k).name] = CurrentOf(k, body, ok)]_vars

\* C2: a tick step for a remote name whose previous list is not empty finds
\* new exactly the items of the current list whose id no item of the previous
\* list has, each once; with notifications on, these are the items it
\* announces, and it announces nothing when there is none.
DiffCorrect ==
    [][\A k \in 1..MaxInFlight, body \in HostLists, ok \in BOOLEAN :
          ( /\ TickPullRequests(k, body, ok)
            /\ Len(LastKnown(lastKnownPRs, RemoteOf(k).name)) > 0
            /\ config.showNotifications )
          => LET previous == LastKnown(lastKnownPRs, RemoteOf(k).name)
                 current == CurrentOf(k, body, ok)
                 fresh == {pr \in ItemsOf(current) :
                             \A j \in 1..Len(previous) : previous[j].id # pr.id}
             IN  /\ Announced(notified') = fresh
                 /\ fresh = {} <=> notified' = <<>>
                 /\ \A j \in 1..Len(notified') :
                       Len(notified'[j].prs) = Cardinality(fresh)]_vars

\* C2, witness: a tick has just announced the request 2 alone and stored it
\* with the request 1 under an edited title, which it did not announce.
DiffCorrectWitness ==
    /\ Len(notified) = 1
    /\ IdsOf(notified[1].prs) = {2}
    /\ "origin" \in DOMAIN lastKnownPRs
    /\ IdsOf(lastKnownPRs["origin"]) = {1, 2}
    /\ lastKnownPRs["origin"][1].title = "edited"

\* C3: a tick that overlaps no other tick and follows a finished tick that
\* overlapped none and got the same list for a remote (the empty list
\* included) raises no notification for that remote.
RepeatedPollSilent ==
    [][\A k \in 1..MaxInFlight, body \in HostLists, ok \in BOOLEAN :
          ( /\ TickPullRequests(k, body, ok)
            /\ solo
            /\ lastResp[RemoteOf(k).name] = Some(CurrentOf(k, body, ok)) )
          => notified' = <<>>]_vars

\* C4: the steps of one tick raise at most one notification between them.
OneNotificationPerTick ==
    [][\A k \in 1..MaxInFlight, body \in HostLists, ok \in BOOLEAN :
          TickPullRequests(k, body, ok)
          => ticks[k].emitted + Len(notified') <= 1]_vars

\* C5: no step of a getCurrentPullRequests() call (its start, the end of its
\* refresh, an answer of a host, its return) changes the per-remote history,
\* nor any other state of the watcher that a tick reads or reports from: the
\* configuration, the timers, the ticks in flight; and it raises no
\* notification. (The snapshot the Git layer stores is not the watcher's: a
\* query that had to refresh it stores what it found, as a tick does.)
QueryLeavesWatcher ==
    [][queries' # queries
       => /\ UNCHANGED <<lastKnownPRs, config, pollingInterval, timers, ticks>>
          /\ notified' = <<>>]_vars

\* C5, witness: a query holds the requests it fetched from the first remote
\* while a tick is in flight and the history has no entry for that remote.
QueryLeavesWatcherWitness ==
    \E q \in 1..Len(queries) :
        /\ queries[q].pc = "host"
        /\ queries[q].allPRs # <<>>
        /\ queries[q].remotes[2].name \notin DOMAIN lastKnownPRs
        /\ ticks # <<>>

\* C6: updateConfig(newConfig) leaves the per-remote history as it is, and no
\* tick step after it announces an item whose id was in the history of the
\* step's remote when updateConfig was called and that every host list since
\* has held (`known` is the ids of that history, less those a host list since
\* has lacked).
ReconfigureKeepsSeen ==
    [][/\ \A newConfig \in DefaultIntervalConfigs :
             UpdateConfig(newConfig) => lastKnownPRs' = lastKnownPRs
       /\ \A k \in 1..MaxInFlight, body \in HostLists, ok \in BOOLEAN :
             TickPullRequests(k, body, ok)
             => {pr.id : pr \in Announced(notified')}
                   \cap known'[RemoteOf(k).name] = {}]_vars

\* C7: a step of stopMonitoring() or dispose(), or of updateConfig() with
\* enabled=false, leaves no polling timer active, whatever calls preceded.
StopCancelsEveryTimer ==
    [][( \/ StopMonitoring
         \/ Dispose
         \/ \E newConfig \in Configs : ~newConfig.enabled /\ UpdateConfig(newConfig) )
       => timers' = <<>>]_vars

\* C8: at most one polling timer is active in every reachable state, and it
\* is the one the watcher holds the handle of, with the configured interval
\* as its period.
AtMostOneTimer ==
    /\ Len(timers) <= 1
    /\ timers # <<>> => pollingInterval = 1 /\ timers[1] = config.pollingInterval

\* C9: whenever the configuration has enabled=false, no polling timer is
\* active (so no timer callback can start a tick).
DisabledIsIdle == ~config.enabled => timers = <<>>

\* The interval clamped to the documented range of 1 to 30 minutes.
Clamp(ms) ==
    IF ms < MinPollingInterval THEN MinPollingInterval
    ELSE IF ms > MaxPollingInterval THEN MaxPollingInterval
    ELSE ms

\* C10: every step that creates a polling timer gives it the period of the
\* configured polling interval clamped to 60000..1800000 ms.
PeriodIsClamped ==
    [][Len(timers') > Len(timers)
       => timers'[Len(timers')] = Clamp(config'.pollingInterval)]_vars

ValidateIsPure ==
    [][ApplyValidateConfiguration
       => /\ arg' = arg
          /\ configCache' = configCache
          /\ LET result == out'[1]
             IN  /\ result.isValid <=> result.errors = <<>>
                 /\ arg.tools = Arr(<<>>)
                    => /\ result.warnings = <<"No tools specified in configuration">>
                       /\ ~Includes(result.errors,
                                    "Invalid \"tools\" field - must be an array")]_vars

\* C20, witness: a cached record with no tools has been validated: it is
\* valid, with a warning.
ValidateIsPureWitness ==
    /\ out # <<>>
    /\ arg.tools = Arr(<<>>)
    /\ configCache # NoCache
    /\ out[1].isValid
    /\ out[1].warnings # <<>>

\* The candidate paths of a folder.
FolderPaths(dir) == {Join(dir, ConfigFileNames[c]) : c \in 1..Len(ConfigFileNames)}

\* The call a step has begun, and the call at place l as a step has left it:
\* in flight still, or returned.
BegunCall == IF returned' # <<>> THEN returned'[1] ELSE loads'[Len(loads')]
SteppedCall(l) == IF returned' # <<>> THEN returned'[1] ELSE loads'[l]

\* A call that goes from `before` to `after` by entering a folder is served
\* the folder's cache entry, reading no candidate of the folder, when the
\* entry is younger than `timeout`; otherwise it reads the folder's files
\* again (when it has any).
ServedWithin(timeout, before, after) ==
    after.f # before.f =>
        LET dir == settings.folders[after.f]
        IN  IF dir \in DOMAIN configCache /\ now - configCache[dir].timestamp < timeout
            THEN /\ after.hit
                 /\ after.pending = Some(configCache[dir].config)
                 /\ after.reads \cap FolderPaths(dir) = {}
            ELSE /\ ~after.hit
                 /\ (\E p \in FolderPaths(dir) : files[p] # None)
                    => after.reads \cap FolderPaths(dir) # {}

\* C11: a call whose candidate loaded stores the record with the time of the
\* store; a call that enters a folder whose entry is younger than the timeout
\* gets the entry's record and reads no candidate of that folder, and returns
\* that record; a call that enters it at the timeout or later reads the
\* folder's files again.
CacheTimeToLive ==
    [][/\ LoadConfiguration => ServedWithin(CacheTimeout, NewLoad("command"), BegunCall)
       /\ \A l \in 1..MaxLoads :
             LoadStep(l)
             => /\ ServedWithin(CacheTimeout, loads[l], SteppedCall(l))
                /\ (loads[l].pc = "candidate" /\ loads[l].pending # None)
                   => configCache'[settings.folders[loads[l].f]]
                         = [config |-> loads[l].pending[1], timestamp |-> now]
                /\ (loads[l].pc = "found" /\ loads[l].pending # None)
                   => /\ returned' # <<>>
                      /\ returned'[1].pending = loads[l].pending
                      /\ returned'[1].reads = loads[l].reads]_vars

\* C11, witness: a call has returned the record cached for the second folder
\* after the clock moved, having read a file of the first folder only.
CacheTimeToLiveWitness ==
    /\ returned # <<>>
    /\ returned[1].hit
    /\ returned[1].f = 2
    /\ returned[1].pending = ValidateConfig(Obj([f \in {"name"} |-> Str("two")]))
    /\ returned[1].reads = {Join("a", "den.yaml")}
    /\ now > 0

\* The den.cacheTimeout setting clamped to its documented range.
ConfiguredCacheTimeout ==
    IF settings.cacheTimeout < MinCacheTimeout THEN MinCacheTimeout
    ELSE IF settings.cacheTimeout > MaxCacheTimeout THEN MaxCacheTimeout
    ELSE settings.cacheTimeout

\* C12: the timeout of the cache is the den.cacheTimeout setting clamped to
\* 5000..300000 ms: a call that enters a folder is served the folder's entry
\* when the entry is younger than that, and not when it is as old or older.
CacheTimeoutConfigured ==
    [][/\ LoadConfiguration
          => ServedWithin(ConfiguredCacheTimeout, NewLoad("command"), BegunCall)
       /\ \A l \in 1..MaxLoads :
             LoadStep(l)
             => ServedWithin(ConfiguredCacheTimeout, loads[l], SteppedCall(l))]_vars

\* C13: clearCache() leaves the cache with no entry, and a call that began
\* after the last clearCache() never returns a cache entry whose record was
\* read from the disk before that clearCache().
FreshAfterClear ==
    [][/\ ClearCache => configCache' = NoCache
       /\ \A j \in 1..Len(returned') :
             ~returned'[j].early => ~returned'[j].fromOld]_vars

\* The file at `path` exists and decodes to an object: its text is in the
\* syntax the parser chosen by its extension reads, and denotes an object.
Decodes(path) ==
    /\ files[path] # None
    /\ \/ ExtName(path) = ".json" /\ files[path][1].syntax = "json"
       \/ ExtName(path) \in {".yml", ".yaml"} /\ files[path][1].syntax \in {"json", "yaml"}
    /\ files[path][1].value.t \in {"object", "array"}

\* The places of the candidates of a folder that decode.
DecodablePlaces(dir) ==
    {c \in 1..Len(ConfigFileNames) : Decodes(Join(dir, ConfigFileNames[c]))}

\* C16: a call that returns a record from the search of a folder returns the
\* record of the first candidate of that folder, in the order den.yml,
\* den.yaml, den.json, .den.yml, .den.yaml, .den.json, that exists and
\* decodes to an object (every candidate before it is missing or fails), no
\* earlier folder having one; a call that found no cache entry read it from
\* that file.
DiscoveryOrder ==
    \A j \in 1..Len(returned) :
        LET r == returned[j]
        IN  (r.f >= 1 /\ r.pending # None)
            => LET dir == settings.folders[r.f]
                   places == DecodablePlaces(dir)
               IN  /\ places # {}
                   /\ \E c \in places :
                         /\ \A b \in places : c <= b
                         /\ r.pending =
                              ValidateConfig(files[Join(dir, ConfigFileNames[c])][1].value)
                         /\ ~r.hit => r.c = c
                   /\ \A f \in 1..(r.f - 1) : DecodablePlaces(settings.folders[f]) = {}

\* C16, witness: den.yml is garbled, den.json and .den.yaml are good, and a
\* call has returned the record of den.json, read from the disk.
DiscoveryOrderWitness ==
    /\ files[Join("a", "den.yml")] = Garbled
    /\ files[Join("a", ".den.yaml")] # None
    /\ returned # <<>>
    /\ ~returned[1].hit
    /\ returned[1].c = 3
    /\ returned[1].pending = ValidateConfig(Obj([f \in {"name"} |-> Str("third")]))

\* C17: every call returns null or a complete record, and with the
\* auto-search on a call returns null only when the override path, if one is
\* set, does not decode and no candidate of any workspace folder decodes.
LoadFailsSoft ==
    \A j \in 1..Len(returned) :
        LET r == returned[j]
        IN  /\ r.pending # None
               => DOMAIN r.pending[1]
                    = {"name", "version", "environment", "tools", "settings"}
            /\ (r.pending = None /\ settings.autoSearch)
               => /\ settings.configPath # None => ~Decodes(settings.configPath[1])
                  /\ \A f \in 1..Len(settings.folders) :
                        DecodablePlaces(settings.folders[f]) = {}

\* C17, witness: a call has returned null after it read a garbled override
\* file and a garbled den.yml and a den.json written in YAML.
LoadFailsSoftWitness ==
    /\ returned # <<>>
    /\ returned[1].pending = None
    /\ settings.autoSearch
    /\ files[Join("etc", "custom.json")] = Garbled
    /\ files[Join("a", "den.yml")] = Garbled
    /\ {Join("etc", "custom.json"), Join("a", "den.yml"), Join("a", "den.json")}
          \subseteq returned[1].reads

ClassTimers(set, dir, class) == {t \in set : t.dir = dir /\ t.class = class}

\* The class of the event that writing a file raises.
WriteClass(path) == IF files[path] = None THEN "create" ELSE "change"

\* C14: every create, change or delete of one of the six discoverable file
\* names in a workspace folder leaves a debounce timer of its class set for
\* that folder, and the run of a debounce timer clears the cache.
FileEventClears ==
    [][/\ \A p \in WatchFiles :
             /\ WriteFile(p.dir, p.name, JsonNamed("new"))
                => ClassTimers(pending', p.dir, WriteClass(p)) # {}
             /\ DeleteFile(p.dir, p.name)
                => ClassTimers(pending', p.dir, "delete") # {}
       /\ \A t \in pending : DebounceFire(t) => configCache' = NoCache]_vars

\* C15: after an event of a class in a folder exactly one timer of the class
\* is set for the folder, due 500 ms after that event; a timer never runs
\* before it is due, and its run is one downstream action (it clears the
\* cache) that leaves no timer of the class set; and a timer of a class is
\* set exactly while events of the class wait for their downstream action.
DebounceCollapses ==
    [][/\ \A dir \in DOMAIN burst, class \in EventClasses :
             /\ burst'[dir][class] > burst[dir][class]
                => ClassTimers(pending', dir, class)
                     = {[dir |-> dir, class |-> class, at |-> now + Debounce]}
             /\ burst'[dir][class] > 0 <=> ClassTimers(pending', dir, class) # {}
       /\ \A t \in pending :
             DebounceFire(t)
             => /\ now >= t.at
                /\ ran' = <<[dir |-> t.dir, class |-> t.class,
                            events |-> burst[t.dir][t.class]]>>
                /\ burst[t.dir][t.class] >= 1
                /\ configCache' = NoCache
                /\ ClassTimers(pending', t.dir, t.class) = {}
       /\ (\A t \in pending : ~DebounceFire(t)) => ran' = <<>>]_vars

\* C15, witness: one downstream action has run for a burst of two change
\* events.
DebounceCollapsesWitness ==
    /\ ran # <<>>
    /\ ran[1].class = "change"
    /\ ran[1].events = 2

\* The places after `from` of the remotes of a list that are on a known host.
HostedAfter(remotes, from) ==
    {j \in (from + 1)..Len(remotes) : remotes[j].type # "other"}

\* The items of a host's answer that target one of the branches.
Targeting(body, branches) ==
    SelectSeq(body, LAMBDA pr : \E b \in 1..Len(branches) : branches[b] = pr.branch)

\* A call in the place it takes after the answer for its remote at i: gone
\* when no remote on a known host follows, else waiting for the first such.
WaitsForNext(before, after, k) ==
    LET later == HostedAfter(before[k].remotes, before[k].i)
    IN  IF later = {}
        THEN Len(after) = Len(before) - 1
        ELSE /\ Len(after) = Len(before)
             /\ after[k].pc = "host"
             /\ after[k].remotes = before[k].remotes
             /\ after[k].i = CHOOSE j \in later : \A x \in later : j <= x

\* C23: a host query that fails gives its remote the empty list (the tick
\* stores it and announces nothing, the on-demand call collects nothing) and
\* ends in no other way than one that succeeds: the call goes on to the next
\* remote on a known host, whose answer is stored or collected as the items
\* of it that target a configured branch.
HostFailureIsolated ==
    [][/\ \A k \in 1..MaxInFlight, body \in LastIdHostLists, ok \in BOOLEAN :
             TickPullRequests(k, body, ok)
             => /\ WaitsForNext(ticks, ticks', k)
                /\ lastKnownPRs'[RemoteOf(k).name]
                     = IF ok THEN Targeting(body, ticks[k].branches) ELSE <<>>
                /\ ~ok => notified' = <<>>
                /\ \A n \in DOMAIN lastKnownPRs \ {RemoteOf(k).name} :
                      lastKnownPRs'[n] = lastKnownPRs[n]
       /\ \A q \in 1..MaxQueries, body \in LastIdHostLists, ok \in BOOLEAN :
             QueryPullRequests(q, body, ok)
             => /\ WaitsForNext(queries, queries', q)
                /\ Len(queries') = Len(queries)
                   => queries'[q].allPRs
                        = queries[q].allPRs
                          \o (IF ok THEN Targeting(body, queries[q].branches)
                              ELSE <<>>)]_vars

\* C23, witness: a tick whose query of origin has failed waits for the
\* answer about upstream, and the history of origin is the empty list.
HostFailureIsolatedWitness ==
    \E k \in 1..Len(ticks) :
        /\ ticks[k].pc = "host"
        /\ ticks[k].failed = {"origin"}
        /\ RemoteOf(k).name = "upstream"
        /\ "origin" \in DOMAIN lastKnownPRs
        /\ lastKnownPRs["origin"] = <<>>

\* The remote a query waits on.
QueryRemoteOf(q) == queries[q].remotes[queries[q].i]

\* C25: no poll tick and no on-demand call ever waits for a host's answer
\* about a remote of type "other" (the remotes without owner and repository),
\* and the history never has an entry under the name of such a remote.
OtherRemotesSkipped ==
    /\ \A k \in 1..Len(ticks) : ticks[k].pc = "host" => RemoteOf(k).type # "other"
    /\ \A q \in 1..Len(queries) :
          queries[q].pc = "host" => QueryRemoteOf(q).type # "other"
    /\ Local.name \notin DOMAIN lastKnownPRs

\* C25, witness: a tick and an on-demand call over the remotes local, origin
\* and upstream both wait for upstream, and the history has an entry for
\* origin alone.
OtherRemotesSkippedWitness ==
    /\ \E k \in 1..Len(ticks) :
          /\ ticks[k].pc = "host"
          /\ ticks[k].remotes = <<Local, Origin, Upstream>>
          /\ ticks[k].i = 3
    /\ \E q \in 1..Len(queries) :
          /\ queries[q].pc = "host"
          /\ queries[q].remotes = <<Local, Origin, Upstream>>
          /\ queries[q].i = 3
    /\ DOMAIN lastKnownPRs = {"origin"}

\* The target branch of every item of a list is one of the branches.
AllTarget(list, branches) ==
    \A j \in 1..Len(list) : \E b \in 1..Len(branches) : branches[b] = list[j].branch

\* C24: whatever the hosts hold, every item in the history of a remote, every
\* item a notification announces and every item an on-demand call has
\* collected from the host client targets a branch of the configured
\* allow-list, for remotes on GitHub, GitLab and Bitbucket.
BranchFiltered ==
    /\ \A n \in DOMAIN lastKnownPRs : AllTarget(lastKnownPRs[n], config.branches)
    /\ \A j \in 1..Len(notified) : AllTarget(notified[j].prs, config.branches)
    /\ \A q \in 1..Len(queries) : AllTarget(queries[q].allPRs, config.branches)

\* C24, witness: with main alone allowed and hosts that hold a request to
\* develop too, the history of each of the three remotes holds the request to
\* main alone, the last of them just announced, and an on-demand call has
\* collected it from two remotes.
BranchFilteredWitness ==
    /\ config.branches = <<"main">>
    /\ DOMAIN lastKnownPRs = {"origin", "upstream", "mirror"}
    /\ \A n \in DOMAIN lastKnownPRs : IdsOf(lastKnownPRs[n]) = {1}
    /\ Len(notified) = 1
    /\ \E q \in 1..Len(queries) : Len(queries[q].allPRs) = 2

\* C30: a call setStatus(s, t) writes to the status item exactly when s or t
\* differs from the pair on display, and then the item changes and shows the
\* new pair; when both are the same, the item is left as it is. Of two calls
\* in a row with the same pair the second never writes.
StatusDedup ==
    [][\A s \in StatusTypes, t \in StatusLabels :
          SetStatusCall(s, t)
          => LET differs == status.state # s \/ status.label # t
                 last == setLog'[Len(setLog')]
             IN  /\ last = [state |-> s, label |-> t, wrote |-> differs]
                 /\ differs <=> statusBarItem' # statusBarItem
                 /\ status' = [state |-> s, label |-> t]
                 /\ statusBarItem'.text[1] = StatusIcons[s]
                 /\ statusBarItem'.text[3] = t
                 /\ ( /\ Len(setLog') = 2
                      /\ setLog'[1].state = s
                      /\ setLog'[1].label = t )
                    => ~last.wrote]_vars

\* C30, witness: two calls in a row with the same pair, of which the first
\* wrote and the second did not.
StatusDedupWitness ==
    /\ setLog = <<[state |-> "success", label |-> "Ready", wrote |-> TRUE],
                  [state |-> "success", label |-> "Ready", wrote |-> FALSE]>>
    /\ status = [state |-> "success", label |-> "Ready"]
    /\ statusBarItem.text = ItemText("success", "Ready")

\* C21: when the user declines the overwrite prompt of createDefaultConfig()
\* (the answer No, or the prompt closed), the file is not written, the cache
\* is not cleared, no error message is shown, and the command does nothing
\* else one can observe: the status item is left as it is, no load is
\* started, and no timer or poll tick of the watcher is started.
OverwriteDeclined ==
    [][\A c \in 1..MaxCreates, answer \in OverwriteAnswers \ {"Yes"}, ok \in BOOLEAN :
          AnswerOverwrite(c, answer, ok)
          => /\ files' = files
             /\ configCache' = configCache
             /\ \A m \in 1..Len(notices') : notices'[m].kind # "error"
             /\ UNCHANGED <<status, statusBarItem, loads, inits>>
             /\ UNCHANGED <<timers, pollingInterval, ticks>>]_vars

\* C22: the write of createDefaultConfig() leaves the cache empty, and with
\* no den.configPath set a load that begins while den.yml of the first folder
\* holds the default text, and after the last clearCache(), returns the
\* default record.
DefaultAfterCreate ==
    [][/\ files' # files => configCache' = NoCache
       /\ \A j \in 1..Len(returned') :
             ( /\ files'[DefaultConfigPath] = Some(YamlDump(DefaultConfig))
               /\ ~returned'[j].early
               /\ settings.configPath = None )
             => returned'[j].pending = Some(DefaultConfig)]_vars

\* C26: a poll tick and the refresh-git-status command work on the
\* repository as it is at the time of the call: the tick on its remotes, the
\* command on its branch and status.
CurrentRepositoryState ==
    [][/\ \A j \in 1..MaxTimers :
             TimerFire(j)
             => ticks' = ticks \o AfterRepositoryInfo(NewTick, Some(Snapshot(worktree)),
                                                      config.branches)
       /\ RefreshGitStatus => gitStatusBarItem' = GitStatusOf(Snapshot(worktree))]_vars

\* The zero value of a field of the snapshot.
ZeroValue(field, time) ==
    IF field = "currentBranch" THEN ""
    ELSE IF field = "remotes" THEN <<>>
    ELSE IF field = "lastCommit" THEN ZeroCommit(time)
    ELSE CleanStatus

\* C27: the answer that completes the four queries of a refresh ends the
\* call and stores a snapshot in which the fields whose query failed hold
\* their zero values and the others what the repository held when they were
\* queried.
RefreshDegradesPerField ==
    [][\A r \in 1..MaxRefreshes, field \in Fields, ok \in BOOLEAN :
          ( /\ RefreshStep(r, field, ok)
            /\ \A f \in Fields \ {field} : refreshes[r].answers[f] # None )
          => /\ Len(refreshes') = Len(refreshes) - 1
             /\ repositoryInfo' # None
             /\ lastRefresh'.failed = refreshes[r].failed \cup (IF ok THEN {} ELSE {field})
             /\ \A f \in Fields :
                   repositoryInfo'[1][f] = IF f \in lastRefresh'.failed
                                           THEN ZeroValue(f, now)
                                           ELSE lastRefresh'.seen[f][1]]_vars

\* A refresh has stored a snapshot though its branch query failed, after the
\* other branch was checked out and a file modified: the branch is empty
\* and the status is the one queried.
RefreshDegradesPerFieldWitness ==
    /\ repositoryInfo # None
    /\ refreshes = <<>>
    /\ lastRefresh.failed = {"currentBranch"}
    /\ repositoryInfo[1].currentBranch = ""
    /\ ~repositoryInfo[1].status.isClean
    /\ repositoryInfo[1].status.ahead = 1

\* C28: a switchBranch whose checkout fails returns false; neither its start
\* nor the failure of its checkout changes the stored snapshot or starts a
\* refresh.
FailedSwitchLeavesSnapshot ==
    [][/\ \A name \in BranchNames :
             SwitchBranch(name) => repositoryInfo' = repositoryInfo /\ refreshes' = refreshes
       /\ \A s \in 1..MaxSwitches :
             Checkout(s, FALSE)
             => /\ switched' = <<[name |-> switches[s].name, result |-> FALSE]>>
                /\ repositoryInfo' = repositoryInfo
                /\ refreshes' = refreshes
                /\ worktree' = worktree]_vars

\* A switchBranch has just returned false, the snapshot being stored and no
\* refresh in flight.
FailedSwitchLeavesSnapshotWitness ==
    /\ switched # <<>>
    /\ ~switched[1].result
    /\ repositoryInfo # None
    /\ refreshes = <<>>

\* C29: once no refresh and no switchBranch is in flight, the stored
\* snapshot names the branch checked out and holds its status (in a
\* repository that only switchBranch changes, the branch checked out is the
\* one of the last switchBranch that returned true).
SwitchedSnapshotConsistent ==
    (refreshes = <<>> /\ switches = <<>> /\ repositoryInfo # None)
    => /\ repositoryInfo[1].currentBranch = worktree.currentBranch
       /\ repositoryInfo[1].status = Snapshot(worktree).status

\* C31: a tick step for a remote leaves, as the history of that remote's
\* name, exactly the list the host client returned to that step, whatever the
\* history held before and whether or not notifications are enabled, and
\* leaves the history of the other names as it was.
WholesaleReplacement ==
    [][\A k \in 1..MaxInFlight, body \in HostLists, ok \in BOOLEAN :
          TickPullRequests(k, body, ok)
          => LET t == ticks[k]
                 remote == t.remotes[t.i]
             IN  /\ DOMAIN lastKnownPRs' = DOMAIN lastKnownPRs \cup {remote.name}
                 /\ lastKnownPRs'[remote.name]
                      = GetPullRequests(remote.type, body, ok, t.branches)
                 /\ \A n \in DOMAIN lastKnownPRs \ {remote.name} :
                       lastKnownPRs'[n] = lastKnownPRs[n]]_vars

\* With notifications off, the history of origin is empty though it held an
\* item at the last updateConfig that every host list since has held: a tick
\* whose host client returned the empty list has dropped the item.
WholesaleReplacementWitness ==
    /\ ~config.showNotifications
    /\ "origin" \in DOMAIN lastKnownPRs
    /\ lastKnownPRs["origin"] = <<>>
    /\ known["origin"] # {}

\* C32: a tick step that diffs, announces and stores for one remote is taken
\* only when no remote of that tick is left whose host has not answered.
DiffAfterAllQueries ==
    [][\A k \in 1..MaxInFlight, body \in HostLists, ok \in BOOLEAN :
          TickPullRequests(k, body, ok)
          => NextRemote(ticks[k].remotes, ticks[k].i + 1) = 0]_vars

\* C33: once the add-on is deactivated (dispose() has run, the Git client is
\* null) the per-remote history is empty and no step raises a notification,
\* whatever was in flight.
DisposedStaysClear ==
    ~git => (lastKnownPRs = EmptyMap /\ notified = <<>>)

NoStormAfterFailure ==
    [][\A k \in 1..MaxInFlight, body \in HostLists, ok \in BOOLEAN :
          ( /\ TickPullRequests(k, body, ok)
            /\ ticks[k].remotes[ticks[k].i].name \in DOMAIN lastKnownPRs
            /\ lastKnownPRs[ticks[k].remotes[ticks[k].i].name] = <<>>
            /\ known[ticks[k].remotes[ticks[k].i].name] # {} )
          => notified' = <<>>]_vars

\* A complete coerced record: the five fields, each of its type.
CompleteRecord(record) ==
    /\ DOMAIN record = {"name", "version", "environment", "tools", "settings"}
    /\ TypeofString(record.name)
    /\ TypeofString(record.version)
    /\ TypeofString(record.environment)
    /\ IsArray(record.tools)
    /\ ~Falsy(record.settings) /\ TypeofObject(record.settings)

\* A call that goes from `before` to `after` by being served a folder's
\* entry gets a record that is younger than the timeout.
ServedFresh(before, after) ==
    (after.f # before.f /\ after.hit) =>
        LET dir == settings.folders[after.f]
        IN  /\ dir \in DOMAIN configCache
            /\ after.pending = Some(configCache[dir].config)
            /\ now - configCache[dir].timestamp < CacheTimeout

GivenEmpty(decoded, field) == Prop(decoded, field) = Str("")

\* The error validateConfiguration reports on a field.
FieldError(field) == "Missing or invalid \"" \o field \o "\" field"

\* C37: validateConfiguration applied to the record a load returned reports
\* no error on tools or settings: its errors are on name, version and
\* environment, one for each of these that the file gives as the empty
\* string and none for a field the file leaves out or gives with another
\* type.
LoadedRecordErrors ==
    Len(out) = 2 =>
        /\ out[2].errors =
             (IF GivenEmpty(arg, "name") THEN <<FieldError("name")>> ELSE <<>>)
             \o (IF GivenEmpty(arg, "version") THEN <<FieldError("version")>> ELSE <<>>)
             \o (IF GivenEmpty(arg, "environment")
                 THEN <<FieldError("environment")>> ELSE <<>>)
        /\ out[2].isValid = (out[2].errors = <<>>)

\* C37, witness: the file gives an empty name, a number as version, a string
\* as tools, null as settings and no environment; the one error is on name.
LoadedRecordErrorsWitness ==
    /\ Len(out) = 2
    /\ arg = ObjectOf([name |-> Str(""), version |-> Num(2),
                       environment |-> Undefined, tools |-> Str("git"),
                       settings |-> Null])
    /\ out[2].errors = <<"Missing or invalid \"name\" field">>

\* C38: when no load and no initializeGit call is in flight after the
\* activation, the status is success, warning or error, and the item does
\* not show the loading icon.
NeverLeftLoading ==
    (status # NoStatus /\ loads = <<>> /\ inits = 0)
    => /\ status.state \in {"success", "warning", "error"}
       /\ statusBarItem.text[1] # StatusIcons["loading"]

\* C38, witness: the validate and the reload command ran side by side, the
\* reload returning last, and nothing is in flight.
NeverLeftLoadingWitness ==
    /\ loads = <<>>
    /\ inits = 0
    /\ Len(setLog) = 2
    /\ setLog[1].label = "Config Valid"
    /\ setLog[2].label = "Reloaded"
    /\ status = [state |-> "success", label |-> "Reloaded"]

\* loadConfiguration() would return null: neither the override path nor a
\* candidate of a workspace folder loads.
NothingLoadable ==
    /\ settings.configPath # None
       => LoadConfigFromPath(files, settings.configPath[1]) = None
    /\ \A f \in 1..Len(settings.folders), c \in 1..Len(ConfigFileNames) :
          LoadConfigFromPath(files, Join(settings.folders[f], ConfigFileNames[c])) = None

\* C39: when the timer of a delete event has just run and no load, timer or
\* initializeGit call is pending, the status is 'No config found' exactly
\* when loadConfiguration() would return null.
NoConfigFoundExact ==
    (/\ ran # <<>>
     /\ ran[1].class = "delete"
     /\ loads = <<>>
     /\ pending = {}
     /\ inits = 0)
    => ((status.label = "No config found") <=> NothingLoadable)

====
